---- MODULE Spec2Model ----
(***************************************************************************)
(* Sina (LLNL): the record/relationship data model and its conversion to   *)
(* and from conduit::Node trees, as implemented under src/cpp/src.         *)
(*                                                                         *)
(* A conduit::Node is modelled by its dtype and content:                   *)
(*   [kind |-> "empty"]                  a node with the empty dtype       *)
(*   [kind |-> "string", str |-> s]      a char8_str leaf                  *)
(*   [kind |-> "number", nums |-> <<..>>] a numeric leaf (a scalar is a    *)
(*                                        leaf of one element)             *)
(*   [kind |-> "list",   items |-> <<..>>]                                 *)
(*   [kind |-> "object", fields |-> f]   f maps child names to nodes       *)
(* The order of an object's children is not modelled.                      *)
(***************************************************************************)
EXTENDS Integers, Sequences, FiniteSets, TLC

VARIABLES
    idField,      \* SpecID: the internal::IDField under test (or NoValue)
    typeLoaders,  \* SpecLoader: RecordLoader::typeLoaders, type -> loader
    registered,   \* SpecLoader: history, the types passed to addTypeLoader
    lastLoader,   \* SpecLoader: history, type -> the function last passed with it
    holders,      \* SpecHolder: the DataHolder objects; holders[1] is the one the
                  \* calls are made on, the others are its library children
    rec,          \* SpecRecord: the Record being built
    doc,          \* SpecDoc: the Document, [records, relationships]
    fileSystem,   \* SpecSave: file name -> what the file holds
    saving,       \* SpecSave: where the saveDocument call in progress is
    op,           \* the last call made: [name |-> ..., arguments]
    ret           \* what the last call returned (or the error it threw)

vars == <<idField, typeLoaders, registered, lastLoader, holders, rec, doc,
          fileSystem, saving, op, ret>>

\* ------------------------------------------------------------------ bounds

MaxRecords == 2
MaxRelationships == 2
MaxData == 2
MaxFiles == 2
MaxLibraries == 2

\* ------------------------------------------------------- conduit::Node

NoValue == [kind |-> "none"]

EmptyNode == [kind |-> "empty"]

EmptyFields == [k \in {} |-> EmptyNode]

StringNode(s) == [kind |-> "string", str |-> s]

NumberNode(ns) == [kind |-> "number", nums |-> ns]

ListNode(xs) == [kind |-> "list", items |-> xs]

ObjectNode(f) == [kind |-> "object", fields |-> f]

\* dtype().is_empty(), is_string(), is_number(), is_list(), is_object()
is_empty(n) == n.kind = "empty"

is_string(n) == n.kind = "string"

is_number(n) == n.kind = "number"

is_list(n) == n.kind = "list"

is_object(n) == n.kind = "object"

\* Node::has_child(name)
has_child(n, name) == is_object(n) /\ name \in DOMAIN n.fields

\* Node::operator[](name) const, as every caller in src/cpp/src relies on it
\* (ID.cpp:27, Document.cpp:47, File.cpp:27): a missing child reads as a node
\* with the empty dtype.
Fetch(n, name) == IF has_child(n, name) THEN n.fields[name] ELSE EmptyNode

FieldsOf(n) == IF is_object(n) THEN n.fields ELSE EmptyFields

\* node[name] = value on a non-const node: the node becomes an object and the
\* child is created or overwritten.
SetChild(n, name, value) ==
    ObjectNode([k \in (DOMAIN FieldsOf(n)) \cup {name} |->
                    IF k = name THEN value ELSE FieldsOf(n)[k]])

\* Node::children() of a list, in order; a leaf or empty node has none.
ChildSeq(n) == CASE is_list(n) -> n.items
                 [] n.kind \in {"empty", "string", "number"} -> <<>>

\* std::string(node.value()) / as_string() of a string leaf
as_string(n) == CASE is_string(n) -> n.str

Range(s) == {s[i] : i \in DOMAIN s}

\* --------------------------------------------------------- results, errors

Ok(v) == [ok |-> TRUE, val |-> v]

\* A thrown std::invalid_argument; msg is the message as the sequence of its
\* literal and inserted parts.
InvalidArgument(parts) == [ok |-> FALSE, err |-> "invalid_argument", msg |-> parts]

Names(e, s) == ~e.ok /\ s \in Range(e.msg)

\* ------------------------------------------------------------ ID, IDField

Local == "Local"

Global == "Global"

ID(id_, type_) == [id |-> id_, type |-> type_]

\* Mutant: the local field is tested first and wins when both are set.
extractIDFromObject_LocalFirst(parentObject, localName, globalName) ==
    LET globalNameNode == Fetch(parentObject, globalName)
        localNameNode == Fetch(parentObject, localName)
    IN  IF is_string(localNameNode)
        THEN Ok(ID(as_string(localNameNode), Local))
        ELSE IF ~is_empty(globalNameNode)
        THEN Ok(ID(as_string(globalNameNode), Global))
        ELSE InvalidArgument(<<"Could not find either of the required ID fields '",
                               localName, "' or '", globalName, "'">>)

\* Mutant: with neither field set, an ID with an empty name is returned.
extractIDFromObject_DefaultID(parentObject, localName, globalName) ==
    LET globalNameNode == Fetch(parentObject, globalName)
    IN  IF ~is_empty(globalNameNode)
        THEN Ok(ID(as_string(globalNameNode), Global))
        ELSE Ok(ID("", Local))

\* ID.cpp:25-39. The second test reads globalNameNode again, as the source does.
extractIDFromObject(parentObject, localName, globalName) ==
    LET globalNameNode == Fetch(parentObject, globalName)
        localNameNode == Fetch(parentObject, localName)
    IN  IF ~is_empty(globalNameNode)
        THEN Ok(ID(as_string(globalNameNode), Global))
        ELSE IF ~is_empty(globalNameNode)
        THEN Ok(ID(as_string(localNameNode), Local))
        ELSE InvalidArgument(<<"Could not find either of the required ID fields '",
                               localName, "' or '", globalName, "'">>)

IDField(value_, localName_, globalName_) ==
    [value |-> value_, localName |-> localName_, globalName |-> globalName_]

\* IDField::IDField(conduit::Node const &, localName, globalName)
IDFieldFromNode(parentObject, localName_, globalName_) ==
    LET r == extractIDFromObject(parentObject, localName_, globalName_)
    IN  IF r.ok THEN Ok(IDField(r.val, localName_, globalName_)) ELSE r

\* Mutant: the two names are swapped.
IDFieldKey_Swapped(field) ==
    IF field.value.type = Global THEN field.localName ELSE field.globalName

\* The key IDField::addTo writes, ID.cpp:52.
IDFieldKey(field) ==
    IF field.value.type = Global THEN field.globalName ELSE field.localName

\* IDField::addTo(conduit::Node &object)
IDFieldAddTo(field, object) ==
    SetChild(object, IDFieldKey(field), StringNode(field.value.id))

\* ------------------------------------------------------------ ConduitUtil

\* ConduitUtil.cpp:23-35
getExpectedString(field, fieldName, parentType) ==
    IF ~is_string(field)
    THEN InvalidArgument(<<"The field '", fieldName, "' for objects of type '",
                           parentType, "' must be a string, was '", field.kind, "'">>)
    ELSE Ok(field.str)

\* ConduitUtil.cpp:38-47
getRequiredField(fieldName, parent, parentType) ==
    IF ~has_child(parent, fieldName)
    THEN InvalidArgument(<<"The field '", fieldName,
                           "' is required for objects of type '", parentType, "'">>)
    ELSE Ok(parent.fields[fieldName])

\* ConduitUtil.cpp:49-53
getRequiredString(fieldName, parent, parentType) ==
    LET field == getRequiredField(fieldName, parent, parentType)
    IN  IF field.ok THEN getExpectedString(field.val, fieldName, parentType) ELSE field

\* ConduitUtil.cpp:55-61
getOptionalString(fieldName, parent, parentType) ==
    IF ~has_child(parent, fieldName) \/ is_empty(parent.fields[fieldName])
    THEN Ok("")
    ELSE getExpectedString(parent.fields[fieldName], fieldName, parentType)

StringNodes(string_values) ==
    [i \in DOMAIN string_values |-> StringNode(string_values[i])]

\* ConduitUtil.cpp:76-85: add_child returns the child (made empty if new), and
\* every value is appended to it: with no value the child stays as it was.
addStringsToNode(parent, child_name, string_values) ==
    LET child_node == Fetch(parent, child_name)
    IN  SetChild(parent, child_name,
                 IF string_values = <<>> THEN child_node
                 ELSE ListNode(ChildSeq(child_node) \o StringNodes(string_values)))

\* The tags loop of Datum.cpp:103-117 and File.cpp:27-39: every child of the
\* tags node must be a string.
ReadTags(tagsNode, fieldName) ==
    LET ch == ChildSeq(tagsNode)
        bad == {i \in DOMAIN ch : ~is_string(ch[i])}
    IN  IF bad = {}
        THEN Ok([i \in DOMAIN ch |-> ch[i].str])
        ELSE LET i == CHOOSE j \in bad : \A k \in bad : j <= k
             IN  InvalidArgument(<<"The optional field '", fieldName,
                                   "' must be an array of strings. Found '",
                                   ch[i].kind, "' instead.">>)

\* ------------------------------------------------------------------ Datum

VALUE_FIELD == "value"

UNITS_FIELD == "units"

TAGS_FIELD == "tags"

DATA_PARENT_TYPE == "data"

ValueTypes == {"String", "Scalar", "StringArray", "ScalarArray"}

\* What a ValueType member that was never assigned can hold: any enumerator,
\* or a value that is none of them.
IndeterminateTypes == ValueTypes \cup {"Indeterminate"}

\* What a double member that was never assigned can hold, within the model.
IndeterminateScalars == {0, 1}

Datum(type_, stringValue_, scalarValue_, stringArrayValue_, scalarArrayValue_) ==
    [type |-> type_, stringValue |-> stringValue_, scalarValue |-> scalarValue_,
     stringArrayValue |-> stringArrayValue_, scalarArrayValue |-> scalarArrayValue_,
     units |-> "", tags |-> <<>>]

\* Datum.cpp:21-43. scalarValue is left unassigned by the other three
\* constructors; no operation reads it while type is not Scalar, and it is
\* written 0 here.
DatumString(value_) == Datum("String", value_, 0, <<>>, <<>>)

DatumScalar(value_) == Datum("Scalar", "", value_, <<>>, <<>>)

DatumStringArray(value_) == Datum("StringArray", "", 0, value_, <<>>)

DatumScalarArray(value_) == Datum("ScalarArray", "", 0, <<>>, value_)

\* Datum::setUnits, Datum::setTags
setUnits(d, units_) == [d EXCEPT !.units = units_]

setTags(d, tags_) == [d EXCEPT !.tags = tags_]

\* Mutant: a list value is walked itself, and an element that is not of the
\* kind of the first one is skipped.
DatumValueOutcomes_SkipsMismatch(asNode) ==
    LET req == getRequiredField(VALUE_FIELD, asNode, DATA_PARENT_TYPE)
        valueNode == req.val
    IN  IF ~req.ok THEN {req}
        ELSE IF is_string(valueNode)
        THEN {Ok(Datum(t, valueNode.str, s, <<>>, <<>>)) :
                 t \in IndeterminateTypes, s \in IndeterminateScalars}
        ELSE IF is_number(valueNode)
        THEN {Ok(Datum(t, "", s, <<>>, <<>>)) :
                 t \in IndeterminateTypes,
                 s \in IF valueNode.nums = <<>> THEN IndeterminateScalars
                       ELSE {valueNode.nums[1]}}
        ELSE IF is_list(valueNode)
        THEN IF valueNode.items = <<>> \/ is_number(valueNode.items[1])
             THEN {Ok(Datum("ScalarArray", "", s, <<>>,
                            SelectSeq([i \in DOMAIN valueNode.items |->
                                          IF is_number(valueNode.items[i])
                                             /\ valueNode.items[i].nums # <<>>
                                          THEN valueNode.items[i].nums[1] ELSE -1],
                                      LAMBDA x : x # -1))) :
                      s \in IndeterminateScalars}
             ELSE IF is_string(valueNode.items[1])
             THEN {Ok(Datum("StringArray", "", s,
                            SelectSeq([i \in DOMAIN valueNode.items |->
                                          IF is_string(valueNode.items[i])
                                          THEN valueNode.items[i].str ELSE ""],
                                      LAMBDA x : x # ""), <<>>)) :
                      s \in IndeterminateScalars}
             ELSE {InvalidArgument(<<"The only valid types for an array '", VALUE_FIELD,
                      "' are strings and numbers.">>)}
        ELSE {InvalidArgument(<<"The required field '", VALUE_FIELD,
                 "' must be a string, double, list of strings, or list of doubles.">>)}

\* Datum.cpp:45-97, the value part. A string or numeric value sets the value
\* member and leaves type unassigned. A list value fixes type and then walks
\* the children of asNode (not of valueNode): the `value` child itself is a
\* list, neither string nor number, so the walk throws.
DatumValueOutcomes(asNode) ==
    LET req == getRequiredField(VALUE_FIELD, asNode, DATA_PARENT_TYPE)
        valueNode == req.val
    IN  IF ~req.ok THEN {req}
        ELSE IF is_string(valueNode)
        THEN {Ok(Datum(t, valueNode.str, s, <<>>, <<>>)) :
                 t \in IndeterminateTypes, s \in IndeterminateScalars}
        ELSE IF is_number(valueNode)
        THEN {Ok(Datum(t, "", s, <<>>, <<>>)) :
                 t \in IndeterminateTypes,
                 s \in IF valueNode.nums = <<>> THEN IndeterminateScalars
                       ELSE {valueNode.nums[1]}}
        ELSE IF is_list(valueNode)
        THEN IF valueNode.items = <<>> \/ is_number(valueNode.items[1])
                \/ is_string(valueNode.items[1])
             THEN {InvalidArgument(<<"If the required field '", VALUE_FIELD,
                      "' is an array, it must consist of only strings or only numbers.">>)}
             ELSE {InvalidArgument(<<"The only valid types for an array '", VALUE_FIELD,
                      "' are strings and numbers.">>)}
        ELSE {InvalidArgument(<<"The required field '", VALUE_FIELD,
                 "' must be a string, double, list of strings, or list of doubles.">>)}

\* Datum::Datum(conduit::Node const &), Datum.cpp:45-118: every result the
\* constructor can have on asNode.
DatumFromNode(asNode) ==
    LET values == DatumValueOutcomes(asNode)
        units_ == getOptionalString(UNITS_FIELD, asNode, DATA_PARENT_TYPE)
        tags_ == IF has_child(asNode, TAGS_FIELD)
                 THEN ReadTags(asNode.fields[TAGS_FIELD], TAGS_FIELD)
                 ELSE Ok(<<>>)
    IN  IF \E v \in values : ~v.ok THEN values
        ELSE IF ~units_.ok THEN {units_}
        ELSE IF ~tags_.ok THEN {tags_}
        ELSE {Ok(setTags(setUnits(v.val, units_.val), tags_.val)) : v \in values}

\* Datum::toNode, Datum.cpp:128-152. The tags branch passes a copy of
\* stringArrayValue, as the source does.
DatumToNode(d) ==
    LET withValue ==
            CASE d.type = "Scalar" ->
                    SetChild(EmptyNode, VALUE_FIELD, NumberNode(<<d.scalarValue>>))
              [] d.type = "String" ->
                    SetChild(EmptyNode, VALUE_FIELD, StringNode(d.stringValue))
              [] d.type = "ScalarArray" ->
                    SetChild(EmptyNode, VALUE_FIELD, NumberNode(d.scalarArrayValue))
              [] d.type = "StringArray" ->
                    addStringsToNode(EmptyNode, VALUE_FIELD, d.stringArrayValue)
              [] OTHER -> EmptyNode
        withTags ==
            IF Len(d.tags) > 0
            THEN addStringsToNode(withValue, TAGS_FIELD, d.stringArrayValue)
            ELSE withValue
    IN  IF d.units # "" THEN SetChild(withTags, UNITS_FIELD, StringNode(d.units))
        ELSE withTags

\* ------------------------------------------------------------------- File

MIMETYPE_KEY == "mimetype"

FILE_TYPE_NAME == "File"

TAGS_KEY == "tags"

\* File::File(std::string uri)
File(uri_) == [uri |-> uri_, mimeType |-> "", tags |-> <<>>]

setMimeType(f, mimeType_) == [f EXCEPT !.mimeType = mimeType_]

\* File::setTags, File.cpp:47-49
FileSetTags(f, tags_) == [f EXCEPT !.tags = tags_]

\* File::File(std::string uri, conduit::Node const &asNode), File.cpp:24-41
FileFromNode(uri_, asNode) ==
    LET mimeType_ == getOptionalString(MIMETYPE_KEY, asNode, FILE_TYPE_NAME)
        tags_ == ReadTags(Fetch(asNode, TAGS_KEY), TAGS_KEY)
    IN  IF ~mimeType_.ok THEN mimeType_
        ELSE IF ~tags_.ok THEN tags_
        ELSE Ok([uri |-> uri_, mimeType |-> mimeType_.val, tags |-> tags_.val])

\* File::toNode, File.cpp:51-61
FileToNode(f) ==
    LET withMime == IF f.mimeType # ""
                    THEN SetChild(EmptyNode, MIMETYPE_KEY, StringNode(f.mimeType))
                    ELSE EmptyNode
    IN  IF Len(f.tags) > 0 THEN addStringsToNode(withMime, TAGS_KEY, f.tags)
        ELSE withMime

\* --------------------------------------------------------------- CurveSet

INDEPENDENT_KEY == "independent"

DEPENDENT_KEY == "dependent"

\* CurveSet{name}: no curves yet. Curves are kept as name -> values.
CurveSet(name_) ==
    [name |-> name_, independent |-> EmptyFields, dependent |-> EmptyFields]

addIndependentCurve(cs, curveName, values) ==
    [cs EXCEPT !.independent =
        [k \in (DOMAIN cs.independent) \cup {curveName} |->
            IF k = curveName THEN values ELSE cs.independent[k]]]

CurvesToNode(curves) ==
    ObjectNode([k \in DOMAIN curves |->
                    SetChild(EmptyNode, VALUE_FIELD, NumberNode(curves[k]))])

\* CurveSet::toNode: both roles are always written, each an object of curves.
CurveSetToNode(cs) ==
    ObjectNode([k \in {INDEPENDENT_KEY, DEPENDENT_KEY} |->
                    IF k = INDEPENDENT_KEY THEN CurvesToNode(cs.independent)
                    ELSE CurvesToNode(cs.dependent)])

CurvesFromNode(n) ==
    [k \in DOMAIN FieldsOf(n) |->
        LET v == Fetch(FieldsOf(n)[k], VALUE_FIELD)
        IN  IF is_number(v) THEN v.nums ELSE <<>>]

\* CurveSet{name, node}
CurveSetFromNode(name_, asNode) ==
    Ok([name |-> name_,
        independent |-> CurvesFromNode(Fetch(asNode, INDEPENDENT_KEY)),
        dependent |-> CurvesFromNode(Fetch(asNode, DEPENDENT_KEY))])

\* ----------------------------------------------------------------- Record

LOCAL_ID_FIELD == "local_id"

GLOBAL_ID_FIELD == "id"

DATA_FIELD == "data"

CURVE_SETS_FIELD == "curve_sets"

TYPE_FIELD == "type"

FILES_FIELD == "files"

USER_DEFINED_FIELD == "user_defined"

RUN_TYPE == "run"

APPLICATION_FIELD == "application"

VERSION_FIELD == "version"

USER_FIELD == "user"

TEST_RECORD_VALUE_KEY == "testKey"

\* A Record object. cls is its dynamic class; application, version and user
\* are the members Run adds, value the member TestRecord<std::string> adds
\* (empty strings in an object of another class). files is the FileSet, kept
\* as uri -> File.
RecordObject(cls_, id_, type_) ==
    [cls |-> cls_, id |-> IDField(id_, LOCAL_ID_FIELD, GLOBAL_ID_FIELD),
     type |-> type_, data |-> EmptyFields, files |-> EmptyFields,
     curveSets |-> EmptyFields, userDefined |-> EmptyNode,
     application |-> "", version |-> "", user |-> "", value |-> ""]

\* Record::Record(ID id, std::string type), Record.cpp:27-29
Record(id_, type_) == RecordObject("Record", id_, type_)

\* Run::Run(ID, application, version, user), Run.cpp:19-23
Run(id_, application_, version_, user_) ==
    [RecordObject("Run", id_, RUN_TYPE) EXCEPT
        !.application = application_, !.version = version_, !.user = user_]

\* TestRecord<std::string>::TestRecord(id, type, value): always a global ID.
TestRecord(id_, type_, value_) ==
    [RecordObject("TestRecord", ID(id_, Global), type_) EXCEPT !.value = value_]

\* Mutant: a name that already has a Datum keeps it (emplace without the
\* assignment of the else branch).
RecordAddDatum_KeepFirst(r, name, datum) ==
    [r EXCEPT !.data = [k \in (DOMAIN r.data) \cup {name} |->
                           IF k \in DOMAIN r.data THEN r.data[k] ELSE datum]]

\* Record::add(std::string name, Datum datum), Record.cpp:104-111
RecordAddDatum(r, name, datum) ==
    [r EXCEPT !.data = [k \in (DOMAIN r.data) \cup {name} |->
                           IF k = name THEN datum ELSE r.data[k]]]

\* Mutant: adding a File starts the record's data over.
RecordAddFile_DropsData(r, file) ==
    [r EXCEPT !.files = [k \in (DOMAIN r.files) \cup {file.uri} |->
                            IF k = file.uri THEN file ELSE r.files[k]],
              !.data = EmptyFields]

\* Mutant: the File already held for the uri is not erased, and the insert
\* into the set then leaves it in place.
RecordAddFile_KeepFirst(r, file) ==
    [r EXCEPT !.files = [k \in (DOMAIN r.files) \cup {file.uri} |->
                            IF k \in DOMAIN r.files THEN r.files[k] ELSE file]]

\* Record::add(File file), Record.cpp:113-119: files are compared by uri
RecordAddFile(r, file) ==
    [r EXCEPT !.files = [k \in (DOMAIN r.files) \cup {file.uri} |->
                            IF k = file.uri THEN file ELSE r.files[k]]]

\* Record::add(CurveSet curveSet), Record.cpp:120-128
RecordAddCurveSet(r, curveSet) ==
    [r EXCEPT !.curveSets = [k \in (DOMAIN r.curveSets) \cup {curveSet.name} |->
                                IF k = curveSet.name THEN curveSet
                                ELSE r.curveSets[k]]]

\* Record::setUserDefinedContent, Record.cpp:130-132
setUserDefinedContent(r, userDefined_) == [r EXCEPT !.userDefined = userDefined_]

\* Mutant: the data child is written whether or not there is a Datum.
RecordToNode_AlwaysData(r) ==
    LET n1 == SetChild(EmptyNode, TYPE_FIELD, StringNode(r.type))
        n2 == IDFieldAddTo(r.id, n1)
        n3 == IF DOMAIN r.files # {}
              THEN SetChild(n2, FILES_FIELD, ObjectNode([uri \in DOMAIN r.files |-> FileToNode(r.files[uri])]))
              ELSE n2
        n4 == SetChild(n3, DATA_FIELD, ObjectNode([name \in DOMAIN r.data |-> DatumToNode(r.data[name])]))
        n5 == IF DOMAIN r.curveSets # {}
              THEN SetChild(n4, CURVE_SETS_FIELD,
                     ObjectNode([name \in DOMAIN r.curveSets |->
                                    CurveSetToNode(r.curveSets[name])]))
              ELSE n4
    IN  IF ~is_empty(r.userDefined)
        THEN SetChild(n5, USER_DEFINED_FIELD, r.userDefined)
        ELSE n5

\* Record::toNode, Record.cpp:31-63
RecordToNode(r) ==
    LET n1 == SetChild(EmptyNode, TYPE_FIELD, StringNode(r.type))
        n2 == IDFieldAddTo(r.id, n1)
        n3 == IF DOMAIN r.files # {}
              THEN SetChild(n2, FILES_FIELD, ObjectNode([uri \in DOMAIN r.files |-> FileToNode(r.files[uri])]))
              ELSE n2
        n4 == IF DOMAIN r.data # {}
              THEN SetChild(n3, DATA_FIELD, ObjectNode([name \in DOMAIN r.data |-> DatumToNode(r.data[name])]))
              ELSE n3
        n5 == IF DOMAIN r.curveSets # {}
              THEN SetChild(n4, CURVE_SETS_FIELD,
                     ObjectNode([name \in DOMAIN r.curveSets |->
                                    CurveSetToNode(r.curveSets[name])]))
              ELSE n4
    IN  IF ~is_empty(r.userDefined)
        THEN SetChild(n5, USER_DEFINED_FIELD, r.userDefined)
        ELSE n5

\* Run::toJson, Run.cpp:31-37
RunToNode(r) ==
    SetChild(SetChild(SetChild(RecordToNode(r),
        APPLICATION_FIELD, StringNode(r.application)),
        VERSION_FIELD, StringNode(r.version)),
        USER_FIELD, StringNode(r.user))

\* TestRecord<T>::toNode, TestRecord.hpp:65-70
TestRecordToNode(r) ==
    SetChild(RecordToNode(r), TEST_RECORD_VALUE_KEY, StringNode(r.value))

\* record->toNode(): the virtual call
ToNode(r) == CASE r.cls = "Run" -> RunToNode(r)
               [] r.cls = "TestRecord" -> TestRecordToNode(r)
               [] OTHER -> RecordToNode(r)

\* The named children a loop over node.children() visits: those of an object;
\* an empty node or a leaf has none.
NamedChildren(n) == CASE is_object(n) -> n.fields
                      [] n.kind \in {"empty", "string", "number"} -> EmptyFields

\* Every result of a loop that builds one value per named child, where
\* outcomes[k] is the set of results the constructor can have on child k: an
\* error of any child that has one (the children's order is not modelled),
\* else each choice of values.
MapFromNode(outcomes) ==
    LET errors == UNION {{o \in outcomes[k] : ~o.ok} : k \in DOMAIN outcomes}
        values == UNION {{o.val : o \in outcomes[k]} : k \in DOMAIN outcomes}
    IN  IF errors # {} THEN errors
        ELSE {Ok(m) : m \in {f \in [DOMAIN outcomes -> values] :
                               \A k \in DOMAIN outcomes : Ok(f[k]) \in outcomes[k]}}

\* Record.cpp:68-75, 76-82, 83-91: the three loops of the constructor
DataFromNode(dataNode) ==
    LET ch == NamedChildren(dataNode)
    IN  MapFromNode([name \in DOMAIN ch |-> DatumFromNode(ch[name])])

FilesFromNode(filesNode) ==
    LET ch == NamedChildren(filesNode)
    IN  MapFromNode([uri \in DOMAIN ch |-> {FileFromNode(uri, ch[uri])}])

CurveSetsFromNode(curveSetsNode) ==
    LET ch == NamedChildren(curveSetsNode)
    IN  MapFromNode([name \in DOMAIN ch |-> {CurveSetFromNode(name, ch[name])}])

\* Record.cpp:92-101: the user_defined member the constructor ends with
UserDefinedFromNode(asNode) ==
    IF has_child(asNode, USER_DEFINED_FIELD)
       /\ ~is_empty(asNode.fields[USER_DEFINED_FIELD])
    THEN IF ~is_object(asNode.fields[USER_DEFINED_FIELD])
         THEN InvalidArgument(<<"User_defined must be an object Node">>)
         ELSE Ok(asNode.fields[USER_DEFINED_FIELD])
    ELSE Ok(EmptyNode)

\* Record::Record(conduit::Node const &asNode), Record.cpp:65-102: every
\* result the constructor can have.
RecordFromNode(asNode) ==
    LET id_ == IDFieldFromNode(asNode, LOCAL_ID_FIELD, GLOBAL_ID_FIELD)
        type_ == getRequiredString(TYPE_FIELD, asNode, "record")
        data_ == IF has_child(asNode, DATA_FIELD)
                 THEN DataFromNode(asNode.fields[DATA_FIELD])
                 ELSE {Ok(EmptyFields)}
        files_ == IF has_child(asNode, FILES_FIELD)
                  THEN FilesFromNode(asNode.fields[FILES_FIELD])
                  ELSE {Ok(EmptyFields)}
        curveSets_ == IF has_child(asNode, CURVE_SETS_FIELD)
                      THEN CurveSetsFromNode(asNode.fields[CURVE_SETS_FIELD])
                      ELSE {Ok(EmptyFields)}
        userDefined_ == UserDefinedFromNode(asNode)
    IN  IF ~id_.ok THEN {id_}
        ELSE IF ~type_.ok THEN {type_}
        ELSE IF \E o \in data_ : ~o.ok THEN data_
        ELSE IF \E o \in files_ : ~o.ok THEN files_
        ELSE IF \E o \in curveSets_ : ~o.ok THEN curveSets_
        ELSE IF ~userDefined_.ok THEN {userDefined_}
        ELSE {Ok([cls |-> "Record", id |-> id_.val, type |-> type_.val,
                  data |-> d.val, files |-> f.val, curveSets |-> c.val,
                  userDefined |-> userDefined_.val,
                  application |-> "", version |-> "", user |-> "", value |-> ""]) :
                 d \in data_, f \in files_, c \in curveSets_}

\* Run::Run(tree), Run.cpp:25-29
RunFromNode(asNode) ==
    LET base == RecordFromNode(asNode)
        application_ == getRequiredString(APPLICATION_FIELD, asNode, RUN_TYPE)
        version_ == getOptionalString(VERSION_FIELD, asNode, RUN_TYPE)
        user_ == getOptionalString(USER_FIELD, asNode, RUN_TYPE)
    IN  IF \E o \in base : ~o.ok THEN base
        ELSE IF ~application_.ok THEN {application_}
        ELSE IF ~version_.ok THEN {version_}
        ELSE IF ~user_.ok THEN {user_}
        ELSE {Ok([o.val EXCEPT !.cls = "Run", !.application = application_.val,
                               !.version = version_.val, !.user = user_.val]) :
                 o \in base}

\* TestRecord<std::string>::TestRecord(conduit::Node const &), TestRecord.cpp:5-8
TestRecordFromNode(asNode) ==
    LET base == RecordFromNode(asNode)
        value_ == getRequiredString(TEST_RECORD_VALUE_KEY, asNode, "TestRecord")
    IN  IF \E o \in base : ~o.ok THEN base
        ELSE IF ~value_.ok THEN {value_}
        ELSE {Ok([o.val EXCEPT !.cls = "TestRecord", !.value = value_.val]) :
                 o \in base}

\* ------------------------------------------------------------- DataHolder

\* DataHolder(){}: no data, no curve sets, no library data. libraryData maps a
\* name to the child it shares, a position in the sequence of DataHolders.
NewDataHolder ==
    [data |-> EmptyFields, curveSets |-> EmptyFields, libraryData |-> EmptyFields]

\* DataHolder::add(std::string name, Datum datum)
DataHolderAddDatum(h, name, datum) ==
    [h EXCEPT !.data = [k \in (DOMAIN h.data) \cup {name} |->
                           IF k = name THEN datum ELSE h.data[k]]]

LIBRARY_DATA_FIELD == "library_data"

\* The `data` and `curve_sets` children of a DataHolder's tree, each written
\* only when the map is not empty.
DataHolderOwnToNode(h) ==
    LET n1 == IF DOMAIN h.data # {}
              THEN SetChild(EmptyNode, DATA_FIELD,
                            ObjectNode([name \in DOMAIN h.data |-> DatumToNode(h.data[name])]))
              ELSE EmptyNode
    IN  IF DOMAIN h.curveSets # {}
        THEN SetChild(n1, CURVE_SETS_FIELD,
                      ObjectNode([name \in DOMAIN h.curveSets |->
                                     CurveSetToNode(h.curveSets[name])]))
        ELSE n1

\* Mutant: the library children are not written.
DataHolderToNode_OwnOnly(heap, h) == DataHolderOwnToNode(heap[h])

\* DataHolder::toNode on heap[h]: its own data and curve sets and, when it has
\* library children, `library_data` with the tree of each child under its
\* name.
RECURSIVE DataHolderToNode(_, _)
DataHolderToNode(heap, h) ==
    IF DOMAIN heap[h].libraryData = {} THEN DataHolderOwnToNode(heap[h])
    ELSE SetChild(DataHolderOwnToNode(heap[h]), LIBRARY_DATA_FIELD,
                  ObjectNode([name \in DOMAIN heap[h].libraryData |->
                                 DataHolderToNode(heap, heap[h].libraryData[name])]))

\* Mutant: every call makes a new empty child and puts it under the name.
add_library_data_Fresh(heap, name) ==
    [heap |-> Append([heap EXCEPT ![1].libraryData =
                         (name :> (Len(heap) + 1)) @@ @], NewDataHolder),
     handle |-> Len(heap) + 1]

\* DataHolder::add_library_data(name) on heap[1]: the heap after the call and
\* the child the returned pointer shares. A name that has a child gets that
\* child; another name gets a new empty child.
add_library_data(heap, name) ==
    IF name \in DOMAIN heap[1].libraryData
    THEN [heap |-> heap, handle |-> heap[1].libraryData[name]]
    ELSE [heap |-> Append([heap EXCEPT ![1].libraryData =
                              (name :> (Len(heap) + 1)) @@ @], NewDataHolder),
          handle |-> Len(heap) + 1]


GLOBAL_SUBJECT_KEY == "subject"

LOCAL_SUBJECT_KEY == "local_subject"

GLOBAL_OBJECT_KEY == "object"

LOCAL_OBJECT_KEY == "local_object"

PREDICATE_KEY == "predicate"

\* Relationship::Relationship(ID subject, std::string predicate, ID object)
Relationship(subject_, predicate_, object_) ==
    [subject |-> IDField(subject_, LOCAL_SUBJECT_KEY, GLOBAL_SUBJECT_KEY),
     object |-> IDField(object_, LOCAL_OBJECT_KEY, GLOBAL_OBJECT_KEY),
     predicate |-> predicate_]

\* Relationship::Relationship(tree), Relationship.cpp:24-27
RelationshipFromNode(asNode) ==
    LET subject_ == IDFieldFromNode(asNode, LOCAL_SUBJECT_KEY, GLOBAL_SUBJECT_KEY)
        object_ == IDFieldFromNode(asNode, LOCAL_OBJECT_KEY, GLOBAL_OBJECT_KEY)
        predicate_ == getRequiredString(PREDICATE_KEY, asNode, "Relationship")
    IN  IF ~subject_.ok THEN subject_
        ELSE IF ~object_.ok THEN object_
        ELSE IF ~predicate_.ok THEN predicate_
        ELSE Ok([subject |-> subject_.val, object |-> object_.val,
                 predicate |-> predicate_.val])

\* Relationship::toJson, Relationship.cpp:29-35
RelationshipToNode(r) ==
    IDFieldAddTo(r.object,
        IDFieldAddTo(r.subject,
            SetChild(EmptyNode, PREDICATE_KEY, StringNode(r.predicate))))

\* ----------------------------------------------------------- RecordLoader

\* The TypeLoader functions of the repository, by name: "Run" is the lambda of
\* addRunLoader (Run.cpp:39-43), "TestRecord" the lambda of
\* Record_test.cpp:298-301.
TypeLoaderFunctions == {"Run", "TestRecord"}

\* loaderIter->second(recordAsNode)
CallTypeLoader(loader, recordAsNode) ==
    CASE loader = "Run" -> RunFromNode(recordAsNode)
      [] loader = "TestRecord" -> TestRecordFromNode(recordAsNode)

\* A default-constructed RecordLoader: typeLoaders is empty.
NewRecordLoader == [t \in {} |-> "Run"]

\* Mutant: registering a type forgets every other registered type.
addTypeLoader_Replace(loaders, type, loader) == [t \in {type} |-> loader]

\* Mutant: a type that is registered keeps its first function.
addTypeLoader_KeepFirst(loaders, type, loader) ==
    [t \in (DOMAIN loaders) \cup {type} |->
        IF t \in DOMAIN loaders THEN loaders[t] ELSE loader]

\* RecordLoader::addTypeLoader, Record.cpp:134-136
addTypeLoader(loaders, type, loader) ==
    [t \in (DOMAIN loaders) \cup {type} |-> IF t = type THEN loader ELSE loaders[t]]

\* recordAsNode[TYPE_FIELD].as_string(), Record.cpp:140: the string of a string
\* leaf; as_string() of any other node is read as the empty string.
TypeKey(recordAsNode) ==
    LET t == Fetch(recordAsNode, TYPE_FIELD)
    IN  IF is_string(t) THEN t.str ELSE ""

\* RecordLoader::load, Record.cpp:138-145: every result it can have
load(loaders, recordAsNode) ==
    IF TypeKey(recordAsNode) \in DOMAIN loaders
    THEN CallTypeLoader(loaders[TypeKey(recordAsNode)], recordAsNode)
    ELSE RecordFromNode(recordAsNode)

\* RecordLoader::canLoad, Record.cpp:147-149
canLoad(loaders, type) == Cardinality({t \in DOMAIN loaders : t = type}) > 0

\* createRecordLoaderWithAllKnownTypes, Record.cpp:151-155, with addRunLoader
createRecordLoaderWithAllKnownTypes == addTypeLoader(NewRecordLoader, RUN_TYPE, "Run")

\* --------------------------------------------------------------- Document

RECORDS_KEY == "records"

RELATIONSHIPS_KEY == "relationships"

\* Document{}
NewDocument == [records |-> <<>>, relationships |-> <<>>]

\* Mutant: the record is put in front of the others.
DocumentAddRecord_Prepend(d, record) == [d EXCEPT !.records = <<record>> \o @]

\* Document::add(std::unique_ptr<Record>), Document.cpp:21-23
DocumentAddRecord(d, record) == [d EXCEPT !.records = Append(@, record)]

\* Document::add(Relationship), Document.cpp:25-27
DocumentAddRelationship(d, relationship) ==
    [d EXCEPT !.relationships = Append(@, relationship)]

\* document[key].append() for each element in turn: the child is made on the
\* first append, so a document with no element of a kind gets no such child.
AppendAll(document, key, nodes) ==
    IF nodes = <<>> THEN document
    ELSE SetChild(document, key, ListNode(ChildSeq(Fetch(document, key)) \o nodes))

\* Document::toNode, Document.cpp:29-43
DocumentToNode(d) ==
    LET withRecords ==
            AppendAll(EmptyNode, RECORDS_KEY,
                      [i \in DOMAIN d.records |-> ToNode(d.records[i])])
    IN  AppendAll(withRecords, RELATIONSHIPS_KEY,
                  [i \in DOMAIN d.relationships |->
                      RelationshipToNode(d.relationships[i])])

\* Mutant: the loop stops at the first element that fails and keeps the
\* values built before it.
SeqFromNode_KeepsPrefix(outcomes) ==
    LET prefix == {i \in DOMAIN outcomes :
                      \A j \in 1..i : \A o \in outcomes[j] : o.ok}
        values == UNION {{o.val : o \in outcomes[i]} : i \in prefix}
    IN  {Ok(q) : q \in {f \in [prefix -> values] :
                          \A i \in prefix : Ok(f[i]) \in outcomes[i]}}

\* Every result of a loop that builds one value per list element in order,
\* where outcomes[i] is the set of results of element i: the error of the
\* first element that has one, else each choice of values.
SeqFromNode(outcomes) ==
    LET failing == {i \in DOMAIN outcomes : \E o \in outcomes[i] : ~o.ok}
        values == UNION {{o.val : o \in outcomes[i]} : i \in DOMAIN outcomes}
    IN  IF failing # {}
        THEN outcomes[CHOOSE i \in failing : \A j \in failing : i <= j]
        ELSE {Ok(q) : q \in {f \in [DOMAIN outcomes -> values] :
                               \A i \in DOMAIN outcomes : Ok(f[i]) \in outcomes[i]}}

MustBeArray(key) ==
    InvalidArgument(<<"The '", key, "' element of a document must be an array">>)

\* Mutant: a `records` child that is no list is read as no records.
DocumentRecordsFromNode_Lenient(asNode, recordLoader) ==
    LET records == Fetch(asNode, RECORDS_KEY)
    IN  IF is_list(records)
        THEN SeqFromNode([i \in DOMAIN records.items |->
                             load(recordLoader, records.items[i])])
        ELSE {Ok(<<>>)}

\* Document.cpp:47-61: the records of the constructor
DocumentRecordsFromNode(asNode, recordLoader) ==
    LET records == Fetch(asNode, RECORDS_KEY)
    IN  IF ~is_empty(records)
        THEN IF is_list(records)
             THEN SeqFromNode([i \in DOMAIN records.items |->
                                  load(recordLoader, records.items[i])])
             ELSE {MustBeArray(RECORDS_KEY)}
        ELSE {Ok(<<>>)}

\* Document.cpp:63-77: the relationships of the constructor
DocumentRelationshipsFromNode(asNode) ==
    LET relationships == Fetch(asNode, RELATIONSHIPS_KEY)
    IN  IF ~is_empty(relationships)
        THEN IF is_list(relationships)
             THEN SeqFromNode([i \in DOMAIN relationships.items |->
                                  {RelationshipFromNode(relationships.items[i])}])
             ELSE {MustBeArray(RELATIONSHIPS_KEY)}
        ELSE {Ok(<<>>)}

\* Document::Document(conduit::Node const &, RecordLoader const &),
\* Document.cpp:45-79: every result the constructor can have
DocumentFromNode(asNode, recordLoader) ==
    LET records_ == DocumentRecordsFromNode(asNode, recordLoader)
        relationships_ == DocumentRelationshipsFromNode(asNode)
    IN  IF \E o \in records_ : ~o.ok THEN records_
        ELSE IF \E o \in relationships_ : ~o.ok THEN relationships_
        ELSE {Ok([records |-> r.val, relationships |-> s.val]) :
                 r \in records_, s \in relationships_}

\* ----------------------------------------------------------- saveDocument

SAVE_TMP_FILE_EXTENSION == ".sina.tmp"

\* Mutant: the text is written straight to the destination.
TmpFileName_InPlace(fileName) == fileName

\* Document.cpp:89: fileName + SAVE_TMP_FILE_EXTENSION
TmpFileName(fileName) == fileName \o SAVE_TMP_FILE_EXTENSION

\* What a file holds: nothing (there is no such file), or some part of a
\* text: "all" of it, a proper prefix ("part"), or "none" (an empty file).
NoFile == [kind |-> "absent"]

FileHolding(text_, written_) == [kind |-> "file", text |-> text_, written |-> written_]

\* Node::to_json(): the text of a tree
to_json(n) == [json |-> n]

\* std::ofstream fout{name}: the file is created, or emptied if it exists
OpenForWriting(fs, name, text) == [fs EXCEPT ![name] = FileHolding(text, "none")]

\* fout << text, fout.close(): how much of the text reached the file
WriteText(fs, name, text, written_) == [fs EXCEPT ![name] = FileHolding(text, written_)]

\* rename(from, to): `to` is replaced in one step by what `from` held
Rename(fs, from, to) ==
    IF from = to THEN fs ELSE [fs EXCEPT ![to] = fs[from], ![from] = NoFile]

\* std::ios::failure, as saveDocument throws it and as a stream with
\* exceptions(failbit | badbit) throws it
IosFailure(parts) == [ok |-> FALSE, err |-> "ios_failure", msg |-> parts]

\* No saveDocument call is in progress.
NotSaving == [pc |-> "idle"]

\* ---------------------------------------------------- the calls' arguments

\* The file saveDocument is called on.
FileName == "doc.json"

\* The files of the directory.
FileNames == {FileName, TmpFileName(FileName)}


Ids == {"a", "b"}

IDs == {ID(i, t) : i \in Ids, t \in {Local, Global}}

\* The (local name, global name) pairs the repository uses (Record.cpp:15-16,
\* Relationship.cpp:12-15).
NamePairs == {<<LOCAL_ID_FIELD, GLOBAL_ID_FIELD>>,
              <<LOCAL_SUBJECT_KEY, GLOBAL_SUBJECT_KEY>>,
              <<LOCAL_OBJECT_KEY, GLOBAL_OBJECT_KEY>>}

\* The nodes with any of `keys` as children, each holding one of `values`
\* (a node with no child has the empty dtype).
ObjectsOver(keys, values) ==
    {IF DOMAIN f = {} THEN EmptyNode ELSE ObjectNode(f) :
        f \in UNION {[S -> values] : S \in SUBSET keys}}

\* Trees an IDField is read from: each ID field absent, present and empty, or
\* a string; one unrelated field.
IDObjects(localName, globalName) ==
    ObjectsOver({localName, globalName, PREDICATE_KEY},
                {EmptyNode} \cup {StringNode(i) : i \in Ids})

Bool(b) == [kind |-> "bool", b |-> b]

\* The trees with any of the children DOMAIN choices, child k holding one of
\* choices[k].
RECURSIVE TreesOver(_)
TreesOver(choices) ==
    IF DOMAIN choices = {} THEN {EmptyNode}
    ELSE LET k == CHOOSE j \in DOMAIN choices : TRUE
             rest == TreesOver([j \in DOMAIN choices \ {k} |-> choices[j]])
         IN  rest \cup {SetChild(t, k, v) : t \in rest, v \in choices[k]}

\* Record types: the one a Run has, and two no class of the library has.
Types == {RUN_TYPE, "foo", "bar"}

\* A `data` child holding one Datum with a string value.
DataTree == ObjectNode("x" :> ObjectNode(VALUE_FIELD :> StringNode("s")))

\* Record trees handed to RecordLoader::load: a type, and any of the children
\* Record, Run and TestRecord read.
LoaderTrees ==
    {SetChild(t, TYPE_FIELD, StringNode(type)) :
        type \in Types,
        t \in TreesOver(GLOBAL_ID_FIELD :> {StringNode("a")}
                        @@ LOCAL_ID_FIELD :> {StringNode("b")}
                        @@ APPLICATION_FIELD :> {StringNode("app")}
                        @@ TEST_RECORD_VALUE_KEY :> {StringNode("v")}
                        @@ DATA_FIELD :> {DataTree})}

\* Records added to a Document.
RecordChoices ==
    {Record(ID("a", Global), "foo"), Run(ID("b", Local), "app", "1", "u"),
     RecordAddDatum(Run(ID("a", Global), "app", "1", "u"), "x", DatumScalar(1))}

\* Relationships added to a Document.
RelationshipChoices ==
    {Relationship(ID("a", Global), "contains", ID("b", Global)),
     Relationship(ID("b", Local), "uses", ID("a", Global))}

\* What the `records` child of a document tree holds: null, a number, an
\* object, or a list of record trees.
RecordsNodes ==
    {EmptyNode, NumberNode(<<123>>), ObjectNode("x" :> StringNode("a")),
     ListNode(<<>>),
     ListNode(<<ToNode(Record(ID("a", Global), "foo"))>>),
     ListNode(<<ToNode(Record(ID("a", Global), "foo")),
                ToNode(Run(ID("b", Global), "app", "1", "u"))>>),
     ListNode(<<ToNode(Record(ID("b", Local), "bar"))>>)}

\* What the `relationships` child holds.
RelationshipsNodes ==
    {EmptyNode, NumberNode(<<123>>), ListNode(<<>>),
     ListNode(<<RelationshipToNode(Relationship(ID("a", Global), "contains",
                                                ID("b", Global)))>>),
     ListNode(<<ObjectNode(PREDICATE_KEY :> StringNode("uses"))>>)}

\* Document trees: each of the two children absent or holding one of the above.
DocumentTrees ==
    TreesOver(RECORDS_KEY :> RecordsNodes @@ RELATIONSHIPS_KEY :> RelationshipsNodes)

\* The loaders a Document is read with.
RecordLoaders == {NewRecordLoader, createRecordLoaderWithAllKnownTypes}

\* Arguments of the Record operations.
RecordIDs == {ID("a", Global), ID("b", Local)}

RecordTypes == {"foo", "bar"}

DatumNames == {"x", "y"}

DatumChoices == {DatumString("s"), DatumScalar(1)}

FileChoices ==
    {File("f"), FileSetTags(setMimeType(File("f"), "text/plain"), <<"t">>),
     File("g")}

CurveSetChoices == {CurveSet("c"), addIndependentCurve(CurveSet("c"), "t", <<0, 1>>)}

\* User-defined content: none, an object, a string, a number, a list.
UserDefinedChoices ==
    {EmptyNode, ObjectNode("k" :> StringNode("v")), StringNode("v"),
     NumberNode(<<1>>), ListNode(<<StringNode("v")>>)}

\* Names of libraries.
LibraryNames == {"foo", "bar", "baz"}

\* A pointer to the DataHolder at position h.
Handle(h) == [kind |-> "handle", ptr |-> h]

\* Datums: each of the four typed constructors, with and without units and
\* tags.
Datums ==
    {setTags(setUnits(d, units_), tags_) :
        d \in {DatumString("s"), DatumScalar(1), DatumStringArray(<<>>),
               DatumStringArray(<<"a", "b">>), DatumScalarArray(<<>>),
               DatumScalarArray(<<1, 2>>)},
        units_ \in {"", "m"}, tags_ \in {<<>>, <<"t", "u">>}}

\* What the `value` child of a Datum tree holds: a string, a number, an array
\* of numbers (one numeric leaf, or a list of numeric leaves), lists of
\* strings, mixed lists, an empty list, an object, null.
DatumValueNodes ==
    {StringNode("s"), NumberNode(<<1>>), NumberNode(<<1, 2>>),
     ListNode(<<NumberNode(<<1>>), NumberNode(<<2>>)>>),
     ListNode(<<StringNode("a"), StringNode("b")>>),
     ListNode(<<NumberNode(<<1>>), StringNode("b")>>),
     ListNode(<<StringNode("a"), NumberNode(<<2>>)>>),
     ListNode(<<>>), ObjectNode("k" :> StringNode("v")), EmptyNode}

\* Datum trees: any of value, units and tags, the latter two well-formed.
DatumTrees ==
    TreesOver(VALUE_FIELD :> DatumValueNodes
              @@ UNITS_FIELD :> {StringNode("m")}
              @@ TAGS_FIELD :> {ListNode(<<StringNode("t"), StringNode("u")>>)})

\* Run trees: each key Run and Record read, absent or a string; the type is
\* the one of a Run or another.
RunTrees ==
    TreesOver(GLOBAL_ID_FIELD :> {StringNode("a")}
              @@ LOCAL_ID_FIELD :> {StringNode("b")}
              @@ TYPE_FIELD :> {StringNode(RUN_TYPE), StringNode("foo")}
              @@ APPLICATION_FIELD :> {StringNode("app")}
              @@ VERSION_FIELD :> {StringNode("1")}
              @@ USER_FIELD :> {StringNode("u")})

\* Arguments of Run{id, application, version, user}.
RunArguments == {"", "x"}

\* Relationship trees: each of the five keys absent or a string.
RelationshipTrees ==
    TreesOver(GLOBAL_SUBJECT_KEY :> {StringNode("a")}
              @@ LOCAL_SUBJECT_KEY :> {StringNode("b")}
              @@ GLOBAL_OBJECT_KEY :> {StringNode("a")}
              @@ LOCAL_OBJECT_KEY :> {StringNode("b")}
              @@ PREDICATE_KEY :> {StringNode("contains")})

\* A `data` child with a Datum that has a value and one that has none.
BadDataTree ==
    ObjectNode("x" :> ObjectNode(VALUE_FIELD :> StringNode("s"))
               @@ "y" :> ObjectNode(UNITS_FIELD :> StringNode("m")))

\* Record trees: identifiers and type absent or a string (the type possibly
\* the empty string), data well-formed or not, user_defined an object or not.
RecordTrees ==
    TreesOver(GLOBAL_ID_FIELD :> {StringNode("a")}
              @@ LOCAL_ID_FIELD :> {StringNode("b")}
              @@ TYPE_FIELD :> {StringNode("foo"), StringNode("")}
              @@ DATA_FIELD :> {DataTree, BadDataTree}
              @@ USER_DEFINED_FIELD :> {ObjectNode("k" :> StringNode("v")),
                                        StringNode("v")})

\* Types handed to Record{id, type}: the empty string too.
ConstructedTypes == {"", "foo", "bar"}

\* Document trees whose first element is valid and whose second may not be:
\* a record with no identifier, a record with a Datum with no value, a
\* relationship with no predicate.
PartialDocumentTrees ==
    TreesOver(
        RECORDS_KEY :>
            {ListNode(<<ToNode(Record(ID("a", Global), "foo"))>>),
             ListNode(<<ToNode(Record(ID("a", Global), "foo")),
                        ToNode(Record(ID("b", Global), "bar"))>>),
             ListNode(<<ToNode(Record(ID("a", Global), "foo")),
                        ObjectNode(TYPE_FIELD :> StringNode("bar"))>>),
             ListNode(<<ToNode(Record(ID("a", Global), "foo")),
                        SetChild(ToNode(Record(ID("b", Global), "bar")),
                                 DATA_FIELD, BadDataTree)>>)}
        @@ RELATIONSHIPS_KEY :>
            {ListNode(<<RelationshipToNode(Relationship(ID("a", Global), "contains",
                                                        ID("b", Global)))>>),
             ListNode(<<RelationshipToNode(Relationship(ID("a", Global), "contains",
                                                        ID("b", Global))),
                        ObjectNode(GLOBAL_SUBJECT_KEY :> StringNode("a")
                                   @@ GLOBAL_OBJECT_KEY :> StringNode("b"))>>)})

\* Files written with toNode: with and without a MIME type and tags.
WrittenFiles ==
    {FileSetTags(setMimeType(File(uri_), mimeType_), tags_) :
        uri_ \in {"f", "g"}, mimeType_ \in {"", "text/plain", "image/png"},
        tags_ \in {<<>>, <<"t">>, <<"t", "u">>}}

\* Runs written with toNode: with and without a version and a user.
WrittenRuns ==
    {Run(id, application, version, user) :
        id \in IDs, application \in {"app", "x"},
        version \in {"", "1", "2"}, user \in {"", "u", "w"}}

\* ------------------------------------------------------------------- Init

Init ==
    /\ idField = NoValue
    /\ typeLoaders = NewRecordLoader
    /\ registered = {}
    /\ lastLoader = NewRecordLoader
    /\ holders = <<NewDataHolder>>
    /\ rec = NoValue
    /\ doc = NewDocument
    /\ fileSystem = [name \in FileNames |-> NoFile]
    /\ saving = NotSaving
    /\ op = [name |-> "none"]
    /\ ret = NoValue

\* ----------------------------------------------------------------- SpecID

\* IDField field{id, localName, globalName}
NewIDField(id, names) ==
    /\ idField' = IDField(id, names[1], names[2])
    /\ op' = [name |-> "IDField", id |-> id]
    /\ ret' = NoValue
    /\ UNCHANGED <<typeLoaders, registered, lastLoader, holders, rec, doc, fileSystem, saving>>

\* IDField field{parentObject, localName, globalName}: on an error no field
\* is made.
ReadIDField(parentObject, names) ==
    LET r == IDFieldFromNode(parentObject, names[1], names[2])
    IN  /\ idField' = IF r.ok THEN r.val ELSE NoValue
        /\ op' = [name |-> "IDField_fromNode", node |-> parentObject,
                  localName |-> names[1], globalName |-> names[2]]
        /\ ret' = r
        /\ UNCHANGED <<typeLoaders, registered, lastLoader, holders, rec, doc, fileSystem, saving>>

\* field.addTo(object)
AddIDFieldTo(object) ==
    /\ idField # NoValue
    /\ op' = [name |-> "IDField_addTo", node |-> object]
    /\ ret' = IDFieldAddTo(idField, object)
    /\ UNCHANGED <<idField, typeLoaders, registered, lastLoader, holders, rec, doc, fileSystem, saving>>

NextID ==
    \/ \E id \in IDs, names \in NamePairs : NewIDField(id, names)
    \/ \E names \in NamePairs :
          \E parentObject \in IDObjects(names[1], names[2]) :
              ReadIDField(parentObject, names)
    \/ \E names \in NamePairs :
          \E object \in IDObjects(names[1], names[2]) : AddIDFieldTo(object)

SpecID == Init /\ [][NextID]_vars

\* ----------------------------------------------- identifier claims (SpecID)

\* C2: when the tree holds both the local-name field and the global-name
\* field (the global one a string), reading the identifier gives a Global ID
\* whose value is the global field's string, whatever the local field holds.
C2_GlobalPrecedence ==
    (/\ op.name = "IDField_fromNode"
     /\ has_child(op.node, op.localName)
     /\ has_child(op.node, op.globalName)
     /\ is_string(op.node.fields[op.globalName]))
    => /\ ret.ok
       /\ ret.val.value.type = Global
       /\ ret.val.value.id = op.node.fields[op.globalName].str
       /\ idField = ret.val

C2_Witness ==
    /\ op.name = "IDField_fromNode"
    /\ has_child(op.node, op.localName)
    /\ has_child(op.node, op.globalName)
    /\ is_string(op.node.fields[op.localName])
    /\ is_string(op.node.fields[op.globalName])
    /\ op.node.fields[op.localName] # op.node.fields[op.globalName]
    /\ ret.ok
    /\ ret.val.value = ID(op.node.fields[op.globalName].str, Global)

\* C3: when the tree holds the local-name field (a string) and not the
\* global-name field, reading the identifier succeeds with a Local ID whose
\* value is the local field's string.
C3_LocalResolves ==
    (/\ op.name = "IDField_fromNode"
     /\ has_child(op.node, op.localName)
     /\ is_string(op.node.fields[op.localName])
     /\ ~has_child(op.node, op.globalName))
    => /\ ret.ok
       /\ ret.val.value.type = Local
       /\ ret.val.value.id = op.node.fields[op.localName].str

\* C4: when the tree holds neither the local-name nor the global-name field,
\* reading the identifier throws std::invalid_argument, the message names both
\* field names, and no identifier is produced.
C4_MissingFails ==
    (/\ op.name = "IDField_fromNode"
     /\ ~has_child(op.node, op.localName)
     /\ ~has_child(op.node, op.globalName))
    => /\ ~ret.ok
       /\ ret.err = "invalid_argument"
       /\ Names(ret, op.localName)
       /\ Names(ret, op.globalName)
       /\ idField = NoValue

C4_Witness ==
    /\ op.name = "IDField_fromNode"
    /\ has_child(op.node, PREDICATE_KEY)
    /\ ~has_child(op.node, op.localName)
    /\ ~has_child(op.node, op.globalName)
    /\ ~ret.ok

\* C5: addTo writes exactly one key into the tree, the global name for a
\* Global ID and the local name for a Local ID, holding the ID's value; every
\* other child is left as it was and the other locality's name is not added.
C5_WriteBack ==
    op.name = "IDField_addTo" =>
        LET key == IF idField.value.type = Global THEN idField.globalName
                   ELSE idField.localName
            other == IF idField.value.type = Global THEN idField.localName
                     ELSE idField.globalName
            before == DOMAIN FieldsOf(op.node)
        IN  /\ is_object(ret)
            /\ DOMAIN ret.fields = before \cup {key}
            /\ ret.fields[key] = StringNode(idField.value.id)
            /\ \A k \in before \ {key} : ret.fields[k] = op.node.fields[k]
            /\ other \in DOMAIN ret.fields <=> other \in before

C5_Witness ==
    /\ op.name = "IDField_addTo"
    /\ idField.value.type = Local
    /\ is_empty(op.node)
    /\ DOMAIN ret.fields = {idField.localName}
    /\ ret.fields[idField.localName] = StringNode(idField.value.id)

\* ------------------------------------------------------------- SpecLoader

\* RecordLoader::addTypeLoader on the loader
AddTypeLoader(type, loader) ==
    /\ typeLoaders' = addTypeLoader(typeLoaders, type, loader)
    /\ registered' = registered \cup {type}
    /\ lastLoader' = (type :> loader) @@ lastLoader
    /\ op' = [name |-> "addTypeLoader", type |-> type, loader |-> loader]
    /\ ret' = NoValue
    /\ UNCHANGED <<idField, holders, rec, doc, fileSystem, saving>>

\* RecordLoader::load on the loader (a const member function)
Load(recordAsNode) ==
    /\ \E r \in load(typeLoaders, recordAsNode) : ret' = r
    /\ op' = [name |-> "load", node |-> recordAsNode]
    /\ UNCHANGED <<idField, typeLoaders, registered, lastLoader, holders, rec, doc, fileSystem, saving>>

\* RecordLoader::canLoad on the loader (a const member function)
CanLoad(type) ==
    /\ ret' = Bool(canLoad(typeLoaders, type))
    /\ op' = [name |-> "canLoad", type |-> type]
    /\ UNCHANGED <<idField, typeLoaders, registered, lastLoader, holders, rec, doc, fileSystem, saving>>

NextLoader ==
    \/ \E type \in Types, loader \in TypeLoaderFunctions : AddTypeLoader(type, loader)
    \/ \E recordAsNode \in LoaderTrees : Load(recordAsNode)
    \/ \E type \in Types : CanLoad(type)

SpecLoader == Init /\ [][NextLoader]_vars

\* ------------------------------------------- RecordLoader claims (SpecLoader)

\* C9: load of a record tree whose type string has no registered loader, and
\* which holds an id or a local_id, returns without error a plain Record (no
\* subtype) whose type is the tree's type string and whose identifier is the
\* one the tree holds (the global one when both are held).
C9_UnknownTypeFallback ==
    (/\ op.name = "load"
     /\ TypeKey(op.node) \notin DOMAIN typeLoaders
     /\ \/ has_child(op.node, GLOBAL_ID_FIELD)
        \/ has_child(op.node, LOCAL_ID_FIELD))
    => /\ ret.ok
       /\ ret.val.cls = "Record"
       /\ ret.val.type = op.node.fields[TYPE_FIELD].str
       /\ ret.val.id.value =
              IF has_child(op.node, GLOBAL_ID_FIELD)
              THEN ID(op.node.fields[GLOBAL_ID_FIELD].str, Global)
              ELSE ID(op.node.fields[LOCAL_ID_FIELD].str, Local)

\* C10: in every state canLoad(t) is true exactly for the types addTypeLoader
\* has been called with (none on a default-constructed loader), a canLoad call
\* returns that answer, and neither canLoad nor load changes the registry.
C10_Membership ==
    /\ [](\A t \in Types : canLoad(typeLoaders, t) <=> t \in registered)
    /\ [](op.name = "canLoad" => ret = Bool(op.type \in registered))
    /\ [][op'.name \in {"load", "canLoad"} => typeLoaders' = typeLoaders]_vars

C10_Witness ==
    /\ op.name = "canLoad"
    /\ ret = Bool(TRUE)
    /\ Cardinality(registered) >= 2
    /\ registered # Types

\* C11: load of a tree whose type string has been registered returns what the
\* function most recently registered for exactly that string returns on the
\* tree (its Record or its exception); a Record it returns is of that
\* function's class, whatever is registered for other types.
C11_Dispatch ==
    (/\ op.name = "load"
     /\ TypeKey(op.node) \in DOMAIN lastLoader)
    => /\ ret \in CallTypeLoader(lastLoader[TypeKey(op.node)], op.node)
       /\ ret.ok => ret.val.cls = lastLoader[TypeKey(op.node)]

C11_Witness ==
    /\ op.name = "load"
    /\ TypeKey(op.node) \in DOMAIN lastLoader
    /\ \E t \in DOMAIN lastLoader : lastLoader[t] # lastLoader[TypeKey(op.node)]
    /\ ret.ok
    /\ ret.val.cls = "TestRecord"
    /\ ret.val.type = RUN_TYPE

\* ---------------------------------------------------------------- SpecDoc

\* doc.add(std::move(record))
DocAddRecord(record) ==
    /\ Len(doc.records) < MaxRecords
    /\ doc' = DocumentAddRecord(doc, record)
    /\ op' = [name |-> "Document_add_Record", record |-> record]
    /\ ret' = NoValue
    /\ UNCHANGED <<idField, typeLoaders, registered, lastLoader, holders, rec, fileSystem, saving>>

\* doc.add(relationship)
DocAddRelationship(relationship) ==
    /\ Len(doc.relationships) < MaxRelationships
    /\ doc' = DocumentAddRelationship(doc, relationship)
    /\ op' = [name |-> "Document_add_Relationship", relationship |-> relationship]
    /\ ret' = NoValue
    /\ UNCHANGED <<idField, typeLoaders, registered, lastLoader, holders, rec, fileSystem, saving>>

\* doc.toNode() (a const member function)
DocToNode ==
    /\ ret' = DocumentToNode(doc)
    /\ op' = [name |-> "Document_toNode"]
    /\ UNCHANGED <<idField, typeLoaders, registered, lastLoader, holders, rec, doc, fileSystem, saving>>

\* Document{asNode, recordLoader}: another Document is constructed; ret is
\* that Document or the exception thrown.
DocFromNode(asNode, recordLoader) ==
    /\ \E r \in DocumentFromNode(asNode, recordLoader) : ret' = r
    /\ op' = [name |-> "Document_fromNode", node |-> asNode, loader |-> recordLoader]
    /\ UNCHANGED <<idField, typeLoaders, registered, lastLoader, holders, rec, doc, fileSystem, saving>>

\* Document{doc.toNode(), createRecordLoaderWithAllKnownTypes()}: ret is the
\* Document read back or the exception thrown (Document_test.cpp:284-301,
\* without the file in between).
DocRoundTrip ==
    /\ \E r \in DocumentFromNode(DocumentToNode(doc),
                                  createRecordLoaderWithAllKnownTypes) : ret' = r
    /\ op' = [name |-> "Document_roundTrip"]
    /\ UNCHANGED <<idField, typeLoaders, registered, lastLoader, holders, rec, doc, fileSystem, saving>>

NextDoc ==
    \/ \E record \in RecordChoices : DocAddRecord(record)
    \/ \E relationship \in RelationshipChoices : DocAddRelationship(relationship)
    \/ DocToNode
    \/ \E asNode \in DocumentTrees, recordLoader \in RecordLoaders :
          DocFromNode(asNode, recordLoader)
    \/ DocRoundTrip

SpecDoc == Init /\ [][NextDoc]_vars

\* ------------------------------------------------- Document claims (SpecDoc)

\* C6: the tree toNode returns always has a `records` child and a
\* `relationships` child, each a list; for a Document with no record and no
\* relationship both lists have no element.
C6_BothArrays ==
    op.name = "Document_toNode" =>
        /\ has_child(ret, RECORDS_KEY)
        /\ is_list(Fetch(ret, RECORDS_KEY))
        /\ has_child(ret, RELATIONSHIPS_KEY)
        /\ is_list(Fetch(ret, RELATIONSHIPS_KEY))
        /\ Len(ChildSeq(Fetch(ret, RECORDS_KEY))) = Len(doc.records)
        /\ Len(ChildSeq(Fetch(ret, RELATIONSHIPS_KEY))) = Len(doc.relationships)

\* C7: no step removes or reorders a record or a relationship of the
\* Document; add(Record) and add(Relationship) put their argument at the end of
\* its sequence and leave the other sequence alone; toNode leaves the Document
\* alone and emits the i-th record (relationship) at index i of `records`
\* (`relationships`).
C7_AppendOnly ==
    [][/\ SubSeq(doc'.records, 1, Len(doc.records)) = doc.records
       /\ SubSeq(doc'.relationships, 1, Len(doc.relationships)) = doc.relationships
       /\ op'.name = "Document_add_Record" =>
             /\ doc'.records = Append(doc.records, op'.record)
             /\ doc'.relationships = doc.relationships
       /\ op'.name = "Document_add_Relationship" =>
             /\ doc'.relationships = Append(doc.relationships, op'.relationship)
             /\ doc'.records = doc.records
       /\ op'.name = "Document_toNode" =>
             /\ doc' = doc
             /\ ChildSeq(Fetch(ret', RECORDS_KEY)) =
                    [i \in DOMAIN doc.records |-> ToNode(doc.records[i])]
             /\ ChildSeq(Fetch(ret', RELATIONSHIPS_KEY)) =
                    [i \in DOMAIN doc.relationships |->
                        RelationshipToNode(doc.relationships[i])]]_vars

C7_Witness ==
    /\ op.name = "Document_toNode"
    /\ Len(doc.records) = 2
    /\ doc.records[1] # doc.records[2]
    /\ Len(doc.relationships) = 2
    /\ doc.relationships[1] # doc.relationships[2]
    /\ ChildSeq(Fetch(ret, RECORDS_KEY)) =
           <<ToNode(doc.records[1]), ToNode(doc.records[2])>>

\* C8 as stated: a `records` (`relationships`) child that is present and is
\* no list makes the construction fail with invalid_argument naming that key,
\* and an absent child gives no record (relationship).
C8_PresentNotArrayFails ==
    op.name = "Document_fromNode" =>
        /\ (has_child(op.node, RECORDS_KEY)
               /\ ~is_list(op.node.fields[RECORDS_KEY]))
           => (~ret.ok /\ ret.err = "invalid_argument" /\ Names(ret, RECORDS_KEY))
        /\ (has_child(op.node, RELATIONSHIPS_KEY)
               /\ ~is_list(op.node.fields[RELATIONSHIPS_KEY]))
           => (~ret.ok /\ ret.err = "invalid_argument"
               /\ Names(ret, RELATIONSHIPS_KEY))
        /\ (~has_child(op.node, RECORDS_KEY) /\ ret.ok) => ret.val.records = <<>>
        /\ (~has_child(op.node, RELATIONSHIPS_KEY) /\ ret.ok)
           => ret.val.relationships = <<>>

\* C8, amended: a `records` child holding a value that is neither null nor a
\* list makes the construction fail with invalid_argument naming `records`; a
\* `relationships` child holding such a value makes it fail with
\* invalid_argument naming `relationships` when the records were read without
\* error; a child that is absent or null gives no element, and the
\* construction succeeds when both are absent or null.
C8_KeyHandling ==
    op.name = "Document_fromNode" =>
        LET records == Fetch(op.node, RECORDS_KEY)
            relationships == Fetch(op.node, RELATIONSHIPS_KEY)
            recordsRead ==
                \/ is_empty(records)
                \/ /\ is_list(records)
                   /\ \A i \in DOMAIN records.items :
                         \A o \in load(op.loader, records.items[i]) : o.ok
        IN  /\ (~is_empty(records) /\ ~is_list(records))
               => (~ret.ok /\ ret.err = "invalid_argument"
                   /\ Names(ret, RECORDS_KEY))
            /\ (recordsRead /\ ~is_empty(relationships) /\ ~is_list(relationships))
               => (~ret.ok /\ ret.err = "invalid_argument"
                   /\ Names(ret, RELATIONSHIPS_KEY))
            /\ (is_empty(records) /\ ret.ok) => ret.val.records = <<>>
            /\ (is_empty(relationships) /\ ret.ok) => ret.val.relationships = <<>>
            /\ (is_empty(records) /\ is_empty(relationships)) => ret.ok

C8_Witness ==
    /\ op.name = "Document_fromNode"
    /\ has_child(op.node, RECORDS_KEY)
    /\ is_empty(op.node.fields[RECORDS_KEY])
    /\ is_number(Fetch(op.node, RELATIONSHIPS_KEY))
    /\ ~ret.ok
    /\ Names(ret, RELATIONSHIPS_KEY)

\* C12: a Document holding one Run and one Relationship, written with toNode
\* and read back with the loader of createRecordLoaderWithAllKnownTypes, gives
\* a Document with exactly one record, a Run with the same application,
\* version, user and Datum values, and exactly one Relationship with the same
\* subject, predicate and object.
C12_RunRoundTrip ==
    (/\ op.name = "Document_roundTrip"
     /\ Len(doc.records) = 1
     /\ doc.records[1].cls = "Run"
     /\ Len(doc.relationships) = 1)
    => /\ ret.ok
       /\ Len(ret.val.records) = 1
       /\ ret.val.records[1].cls = "Run"
       /\ ret.val.records[1].application = doc.records[1].application
       /\ ret.val.records[1].version = doc.records[1].version
       /\ ret.val.records[1].user = doc.records[1].user
       /\ DOMAIN ret.val.records[1].data = DOMAIN doc.records[1].data
       /\ \A name \in DOMAIN doc.records[1].data :
             ret.val.records[1].data[name].scalarValue =
                doc.records[1].data[name].scalarValue
       /\ Len(ret.val.relationships) = 1
       /\ ret.val.relationships[1].subject.value = doc.relationships[1].subject.value
       /\ ret.val.relationships[1].predicate = doc.relationships[1].predicate
       /\ ret.val.relationships[1].object.value = doc.relationships[1].object.value

\* ------------------------------------------------------------- SpecRecord

\* Record{id, type}
NewRecord(id, type) ==
    /\ rec' = Record(id, type)
    /\ op' = [name |-> "Record", id |-> id, type |-> type]
    /\ ret' = NoValue
    /\ UNCHANGED <<idField, typeLoaders, registered, lastLoader, holders, doc, fileSystem, saving>>

\* rec.add(name, datum)
AddDatum(name, datum) ==
    /\ rec # NoValue
    /\ name \in DOMAIN rec.data \/ Cardinality(DOMAIN rec.data) < MaxData
    /\ rec' = RecordAddDatum(rec, name, datum)
    /\ op' = [name |-> "Record_add_Datum", key |-> name, datum |-> datum]
    /\ ret' = NoValue
    /\ UNCHANGED <<idField, typeLoaders, registered, lastLoader, holders, doc, fileSystem, saving>>

\* rec.add(file)
AddFile(file) ==
    /\ rec # NoValue
    /\ file.uri \in DOMAIN rec.files \/ Cardinality(DOMAIN rec.files) < MaxFiles
    /\ rec' = RecordAddFile(rec, file)
    /\ op' = [name |-> "Record_add_File", file |-> file]
    /\ ret' = NoValue
    /\ UNCHANGED <<idField, typeLoaders, registered, lastLoader, holders, doc, fileSystem, saving>>

\* rec.add(curveSet)
AddCurveSet(curveSet) ==
    /\ rec # NoValue
    /\ rec' = RecordAddCurveSet(rec, curveSet)
    /\ op' = [name |-> "Record_add_CurveSet", curveSet |-> curveSet]
    /\ ret' = NoValue
    /\ UNCHANGED <<idField, typeLoaders, registered, lastLoader, holders, doc, fileSystem, saving>>

\* rec.setUserDefinedContent(userDefined)
SetUserDefinedContent(userDefined) ==
    /\ rec # NoValue
    /\ rec' = setUserDefinedContent(rec, userDefined)
    /\ op' = [name |-> "Record_setUserDefinedContent", node |-> userDefined]
    /\ ret' = NoValue
    /\ UNCHANGED <<idField, typeLoaders, registered, lastLoader, holders, doc, fileSystem, saving>>

\* rec.toNode() (a const member function)
RecToNode ==
    /\ rec # NoValue
    /\ ret' = ToNode(rec)
    /\ op' = [name |-> "Record_toNode"]
    /\ UNCHANGED <<idField, typeLoaders, registered, lastLoader, holders, rec, doc, fileSystem, saving>>

\* Record{rec.toNode()}: ret is the Record constructed or the exception thrown
RecRoundTrip ==
    /\ rec # NoValue
    /\ \E r \in RecordFromNode(ToNode(rec)) : ret' = r
    /\ op' = [name |-> "Record_fromNode", node |-> ToNode(rec)]
    /\ UNCHANGED <<idField, typeLoaders, registered, lastLoader, holders, rec, doc, fileSystem, saving>>

NextRecord ==
    \/ \E id \in RecordIDs, type \in RecordTypes : NewRecord(id, type)
    \/ \E name \in DatumNames, datum \in DatumChoices : AddDatum(name, datum)
    \/ \E file \in FileChoices : AddFile(file)
    \/ \E curveSet \in CurveSetChoices : AddCurveSet(curveSet)
    \/ \E userDefined \in UserDefinedChoices : SetUserDefinedContent(userDefined)
    \/ RecToNode
    \/ RecRoundTrip

SpecRecord == Init /\ [][NextRecord]_vars

\* ---------------------------------------------------- Record claims (SpecRecord)

\* C1: constructing a Record from rec.toNode(), for a Record whose
\* user-defined content is absent or an object, succeeds and gives a Record
\* equal to rec in identifier value and locality, type, data, files, curve
\* sets and user-defined content.
C1_RoundTrip ==
    (/\ op.name = "Record_fromNode"
     /\ is_empty(rec.userDefined) \/ is_object(rec.userDefined))
    => /\ ret.ok
       /\ ret.val.id.value = rec.id.value
       /\ ret.val.type = rec.type
       /\ ret.val.data = rec.data
       /\ ret.val.files = rec.files
       /\ ret.val.curveSets = rec.curveSets
       /\ ret.val.userDefined = rec.userDefined

\* C13: add(File) leaves the Record holding exactly one File for the uri of
\* its argument, with the mimetype and tags of the argument, and the Files
\* held for other uris as they were; no other call on the Record changes its
\* files, and every File is held under its own uri.
C13_FileReplace ==
    /\ [][
          /\ op'.name = "Record_add_File" =>
                /\ DOMAIN rec'.files = DOMAIN rec.files \cup {op'.file.uri}
                /\ rec'.files[op'.file.uri] = op'.file
                /\ \A uri \in DOMAIN rec.files \ {op'.file.uri} :
                      rec'.files[uri] = rec.files[uri]
          /\ (rec # NoValue /\ op'.name \notin {"Record_add_File", "Record"}) =>
                rec'.files = rec.files
          /\ op'.name = "Record" => DOMAIN rec'.files = {}
       ]_vars
    /\ [](rec # NoValue => \A uri \in DOMAIN rec.files : rec.files[uri].uri = uri)

C13_Witness ==
    /\ op.name = "Record_add_File"
    /\ op.file = File("f")
    /\ DOMAIN rec.files = {"f", "g"}
    /\ rec.files["f"].mimeType = ""
    /\ rec.files["f"].tags = <<>>

\* C14: add(name, datum) leaves the data map with exactly the names it had
\* and `name`, the entry of `name` being `datum` and every other entry as it
\* was; no other call on the Record changes its data.
C14_DatumLastWriteWins ==
    [][
       /\ op'.name = "Record_add_Datum" =>
             /\ DOMAIN rec'.data = DOMAIN rec.data \cup {op'.key}
             /\ rec'.data[op'.key] = op'.datum
             /\ \A name \in DOMAIN rec.data \ {op'.key} :
                   rec'.data[name] = rec.data[name]
       /\ (rec # NoValue /\ op'.name \notin {"Record_add_Datum", "Record"}) =>
             rec'.data = rec.data
       /\ op'.name = "Record" => DOMAIN rec'.data = {}
    ]_vars

C14_Witness ==
    /\ op.name = "Record_add_Datum"
    /\ op.key = "x"
    /\ op.datum = DatumScalar(1)
    /\ DOMAIN rec.data = {"x", "y"}
    /\ rec.data["x"] = DatumScalar(1)
    /\ rec.data["y"] = DatumString("s")

\* ------------------------------------------------------------- SpecHolder

\* holder.add_library_data(name): ret is the pointer returned
AddLibraryData(name) ==
    /\ name \in DOMAIN holders[1].libraryData \/ Len(holders) <= MaxLibraries
    /\ holders' = add_library_data(holders, name).heap
    /\ ret' = Handle(add_library_data(holders, name).handle)
    /\ op' = [name |-> "add_library_data", libName |-> name]
    /\ UNCHANGED <<idField, typeLoaders, registered, lastLoader, rec, doc, fileSystem, saving>>

\* add(name, datum) on the DataHolder itself or, through a pointer that
\* add_library_data returned, on one of its children
HolderAddDatum(h, name, datum) ==
    /\ h \in DOMAIN holders
    /\ holders' = [holders EXCEPT ![h] = DataHolderAddDatum(@, name, datum)]
    /\ ret' = NoValue
    /\ op' = [name |-> "DataHolder_add_Datum", holder |-> h, key |-> name,
              datum |-> datum]
    /\ UNCHANGED <<idField, typeLoaders, registered, lastLoader, rec, doc, fileSystem, saving>>

\* holder.toNode() on the DataHolder itself (a const member function); a
\* Record that is a DataHolder adds its type and identifier to this tree.
HolderToNode ==
    /\ ret' = DataHolderToNode(holders, 1)
    /\ op' = [name |-> "DataHolder_toNode"]
    /\ UNCHANGED <<idField, typeLoaders, registered, lastLoader, holders, rec, doc, fileSystem, saving>>

NextHolder ==
    \/ \E name \in LibraryNames : AddLibraryData(name)
    \/ \E h \in 1..(MaxLibraries + 1), datum \in DatumChoices :
          HolderAddDatum(h, "x", datum)
    \/ HolderToNode

SpecHolder == Init /\ [][NextHolder]_vars

C16_NullSuppression ==
    op.name = "Record_toNode" =>
        /\ has_child(ret, DATA_FIELD) <=> DOMAIN rec.data # {}
        /\ has_child(ret, FILES_FIELD) <=> DOMAIN rec.files # {}
        /\ has_child(ret, CURVE_SETS_FIELD) <=> DOMAIN rec.curveSets # {}
        /\ has_child(ret, USER_DEFINED_FIELD) <=> ~is_empty(rec.userDefined)
        /\ {TYPE_FIELD, IDFieldKey(rec.id)} \subseteq DOMAIN ret.fields
        /\ DOMAIN ret.fields \subseteq
              {TYPE_FIELD, IDFieldKey(rec.id), DATA_FIELD, FILES_FIELD,
               CURVE_SETS_FIELD, USER_DEFINED_FIELD}

C16_Witness ==
    /\ op.name = "Record_toNode"
    /\ DOMAIN rec.data = {}
    /\ DOMAIN rec.files # {}
    /\ DOMAIN rec.curveSets = {}
    /\ is_empty(rec.userDefined)
    /\ DOMAIN ret.fields = {TYPE_FIELD, LOCAL_ID_FIELD, FILES_FIELD}

\* C17: setUserDefinedContent called with a string, a number or a list throws
\* std::invalid_argument and does not store its argument; called with an
\* object it returns and stores it.
C17_ObjectOnly ==
    op.name = "Record_setUserDefinedContent" =>
        IF is_object(op.node)
        THEN ret = NoValue /\ rec.userDefined = op.node
        ELSE (is_string(op.node) \/ is_number(op.node) \/ is_list(op.node)) =>
                /\ ret # NoValue
                /\ ~ret.ok
                /\ ret.err = "invalid_argument"
                /\ rec.userDefined # op.node

\* -------------------------------------------------------------- SpecDatum

\* Datum{asNode}: ret is the Datum constructed or the exception thrown
DatumRead(asNode) ==
    /\ \E r \in DatumFromNode(asNode) : ret' = r
    /\ op' = [name |-> "Datum_fromNode", node |-> asNode]
    /\ UNCHANGED <<idField, typeLoaders, registered, lastLoader, holders, rec, doc, fileSystem, saving>>

\* datum.toNode()
DatumWrite(datum) ==
    /\ ret' = DatumToNode(datum)
    /\ op' = [name |-> "Datum_toNode", datum |-> datum]
    /\ UNCHANGED <<idField, typeLoaders, registered, lastLoader, holders, rec, doc, fileSystem, saving>>

\* Datum{datum.toNode()}
DatumRoundTrip(datum) ==
    /\ \E r \in DatumFromNode(DatumToNode(datum)) : ret' = r
    /\ op' = [name |-> "Datum_roundTrip", datum |-> datum,
              node |-> DatumToNode(datum)]
    /\ UNCHANGED <<idField, typeLoaders, registered, lastLoader, holders, rec, doc, fileSystem, saving>>

NextDatum ==
    \/ \E asNode \in DatumTrees : DatumRead(asNode)
    \/ \E datum \in Datums : DatumWrite(datum)
    \/ \E datum \in Datums : DatumRoundTrip(datum)

SpecDatum == Init /\ [][NextDatum]_vars

\* C18: constructing a Datum from a node sets the kind and the matching value
\* from `value`: a string gives String with that string, a number gives
\* Scalar with that number, an array of only numbers gives ScalarArray with
\* the elements in order, an array of only strings gives StringArray with the
\* elements in order, an empty array gives ScalarArray with no elements.
C18_KindInference ==
    (op.name = "Datum_fromNode" /\ has_child(op.node, VALUE_FIELD)) =>
        LET v == op.node.fields[VALUE_FIELD]
            numbers == is_list(v) /\ v.items # <<>>
                       /\ \A i \in DOMAIN v.items :
                              is_number(v.items[i]) /\ Len(v.items[i].nums) = 1
            strings == is_list(v) /\ v.items # <<>>
                       /\ \A i \in DOMAIN v.items : is_string(v.items[i])
        IN  /\ is_string(v) =>
                /\ ret.ok
                /\ ret.val.type = "String"
                /\ ret.val.stringValue = v.str
            /\ (is_number(v) /\ Len(v.nums) = 1) =>
                /\ ret.ok
                /\ ret.val.type = "Scalar"
                /\ ret.val.scalarValue = v.nums[1]
            /\ (is_number(v) /\ Len(v.nums) > 1) =>
                /\ ret.ok
                /\ ret.val.type = "ScalarArray"
                /\ ret.val.scalarArrayValue = v.nums
            /\ numbers =>
                /\ ret.ok
                /\ ret.val.type = "ScalarArray"
                /\ ret.val.scalarArrayValue =
                       [i \in DOMAIN v.items |-> v.items[i].nums[1]]
            /\ strings =>
                /\ ret.ok
                /\ ret.val.type = "StringArray"
                /\ ret.val.stringArrayValue =
                       [i \in DOMAIN v.items |-> v.items[i].str]
            /\ (is_list(v) /\ v.items = <<>>) =>
                /\ ret.ok
                /\ ret.val.type = "ScalarArray"
                /\ ret.val.scalarArrayValue = <<>>

\* C19: constructing a Datum from a node whose `value` is an array mixing
\* numbers and strings, in either order, throws std::invalid_argument and
\* yields no Datum; so does a `value` that is neither string, number nor
\* array.
C19_HeterogeneousRejected ==
    (op.name = "Datum_fromNode" /\ has_child(op.node, VALUE_FIELD)) =>
        LET v == op.node.fields[VALUE_FIELD]
            mixed == /\ is_list(v)
                     /\ \E i \in DOMAIN v.items : is_number(v.items[i])
                     /\ \E i \in DOMAIN v.items : is_string(v.items[i])
            other == ~is_string(v) /\ ~is_number(v) /\ ~is_list(v)
        IN  (mixed \/ other) => (~ret.ok /\ ret.err = "invalid_argument")

C19_Witness ==
    /\ op.name = "Datum_fromNode"
    /\ has_child(op.node, VALUE_FIELD)
    /\ op.node.fields[VALUE_FIELD] = ListNode(<<NumberNode(<<1>>), StringNode("b")>>)
    /\ ~ret.ok
    /\ ret.err = "invalid_argument"

\* C20: the Datum built from d.toNode() has the kind, the active value, the
\* tags in order and the units of d, for d of any of the four kinds; only an
\* empty StringArray comes back as an empty ScalarArray.
C20_DatumRoundTrip ==
    op.name = "Datum_roundTrip" =>
        LET d == op.datum
        IN  /\ ret.ok
            /\ ret.val.units = d.units
            /\ ret.val.tags = d.tags
            /\ IF d.type = "StringArray" /\ d.stringArrayValue = <<>>
               THEN ret.val.type = "ScalarArray" /\ ret.val.scalarArrayValue = <<>>
               ELSE /\ ret.val.type = d.type
                    /\ d.type = "String" => ret.val.stringValue = d.stringValue
                    /\ d.type = "Scalar" => ret.val.scalarValue = d.scalarValue
                    /\ d.type = "StringArray" =>
                           ret.val.stringArrayValue = d.stringArrayValue
                    /\ d.type = "ScalarArray" =>
                           ret.val.scalarArrayValue = d.scalarArrayValue

\* --------------------------------------------------------------- SpecRead

\* Run{id, application, version, user}: ret is the Run constructed
RunNew(id, application, version, user) ==
    /\ ret' = Ok(Run(id, application, version, user))
    /\ op' = [name |-> "Run", id |-> id]
    /\ UNCHANGED <<idField, typeLoaders, registered, lastLoader, holders, rec, doc, fileSystem, saving>>

\* Run{asNode}: ret is the Run constructed or the exception thrown
RunRead(asNode) ==
    /\ \E r \in RunFromNode(asNode) : ret' = r
    /\ op' = [name |-> "Run_fromNode", node |-> asNode]
    /\ UNCHANGED <<idField, typeLoaders, registered, lastLoader, holders, rec, doc, fileSystem, saving>>

\* Relationship{asNode}
RelationshipRead(asNode) ==
    /\ ret' = RelationshipFromNode(asNode)
    /\ op' = [name |-> "Relationship_fromNode", node |-> asNode]
    /\ UNCHANGED <<idField, typeLoaders, registered, lastLoader, holders, rec, doc, fileSystem, saving>>

\* Record{id, type}: ret is the Record constructed
RecordNew(id, type) ==
    /\ ret' = Ok(Record(id, type))
    /\ op' = [name |-> "Record_new", id |-> id, type |-> type]
    /\ UNCHANGED <<idField, typeLoaders, registered, lastLoader, holders, rec, doc, fileSystem, saving>>

\* Record{asNode}
RecordRead(asNode) ==
    /\ \E r \in RecordFromNode(asNode) : ret' = r
    /\ op' = [name |-> "Record_fromNode", node |-> asNode]
    /\ UNCHANGED <<idField, typeLoaders, registered, lastLoader, holders, rec, doc, fileSystem, saving>>

NextRead ==
    \/ \E id \in RecordIDs, application \in RunArguments, version \in RunArguments,
          user \in RunArguments : RunNew(id, application, version, user)
    \/ \E asNode \in RunTrees : RunRead(asNode)
    \/ \E asNode \in RelationshipTrees : RelationshipRead(asNode)
    \/ \E id \in RecordIDs, type \in ConstructedTypes : RecordNew(id, type)
    \/ \E asNode \in RecordTrees : RecordRead(asNode)
    \/ \E asNode \in RecordTrees : Load(asNode)
    \/ \E asNode \in PartialDocumentTrees, recordLoader \in RecordLoaders :
          DocFromNode(asNode, recordLoader)

SpecRead == Init /\ [][NextRead]_vars

\* ------------------------------------------- deserialization claims (SpecRead)

\* C21: constructing a Run from a tree that has an identifier and a type but
\* no `application` throws std::invalid_argument naming `application`; a
\* tree that has them and `application` is accepted whether or not it has
\* `version` and `user`, and a missing one reads as the empty string.
C21_RunFields ==
    (/\ op.name = "Run_fromNode"
     /\ has_child(op.node, GLOBAL_ID_FIELD) \/ has_child(op.node, LOCAL_ID_FIELD)
     /\ has_child(op.node, TYPE_FIELD))
    => IF ~has_child(op.node, APPLICATION_FIELD)
       THEN ~ret.ok /\ ret.err = "invalid_argument" /\ Names(ret, APPLICATION_FIELD)
       ELSE /\ ret.ok
            /\ ret.val.application = op.node.fields[APPLICATION_FIELD].str
            /\ ret.val.version = IF has_child(op.node, VERSION_FIELD)
                                 THEN op.node.fields[VERSION_FIELD].str ELSE ""
            /\ ret.val.user = IF has_child(op.node, USER_FIELD)
                              THEN op.node.fields[USER_FIELD].str ELSE ""

\* C22: constructing a Relationship from a tree throws
\* std::invalid_argument when the predicate is absent (the message names
\* `predicate` and `Relationship`), when `subject` and `local_subject` are
\* both absent (the message names both) and when `object` and `local_object`
\* are both absent (the message names both); with subject, predicate and
\* object present it yields them, each identifier global or local by the
\* name of the field that held it.
C22_RelationshipFields ==
    op.name = "Relationship_fromNode" =>
        LET n == op.node
            hasSubject == has_child(n, GLOBAL_SUBJECT_KEY) \/ has_child(n, LOCAL_SUBJECT_KEY)
            hasObject == has_child(n, GLOBAL_OBJECT_KEY) \/ has_child(n, LOCAL_OBJECT_KEY)
            hasPredicate == has_child(n, PREDICATE_KEY)
            Read(localName, globalName) ==
                IF has_child(n, globalName)
                THEN ID(n.fields[globalName].str, Global)
                ELSE ID(n.fields[localName].str, Local)
        IN  /\ ~hasSubject =>
                /\ ~ret.ok /\ ret.err = "invalid_argument"
                /\ Names(ret, GLOBAL_SUBJECT_KEY) /\ Names(ret, LOCAL_SUBJECT_KEY)
            /\ (hasSubject /\ ~hasObject) =>
                /\ ~ret.ok /\ ret.err = "invalid_argument"
                /\ Names(ret, GLOBAL_OBJECT_KEY) /\ Names(ret, LOCAL_OBJECT_KEY)
            /\ (hasSubject /\ hasObject /\ ~hasPredicate) =>
                /\ ~ret.ok /\ ret.err = "invalid_argument"
                /\ Names(ret, PREDICATE_KEY) /\ Names(ret, "Relationship")
            /\ (hasSubject /\ hasObject /\ hasPredicate) =>
                /\ ret.ok
                /\ ret.val.predicate = n.fields[PREDICATE_KEY].str
                /\ ret.val.subject.value = Read(LOCAL_SUBJECT_KEY, GLOBAL_SUBJECT_KEY)
                /\ ret.val.object.value = Read(LOCAL_OBJECT_KEY, GLOBAL_OBJECT_KEY)

\* C23: a record tree that has an identifier and no `type` yields no Record:
\* both Record{tree} and RecordLoader::load(tree) throw std::invalid_argument
\* with a message that names `type`.
C23_MissingType ==
    (/\ op.name \in {"Record_fromNode", "load"}
     /\ has_child(op.node, GLOBAL_ID_FIELD) \/ has_child(op.node, LOCAL_ID_FIELD)
     /\ ~has_child(op.node, TYPE_FIELD))
    => (~ret.ok /\ ret.err = "invalid_argument" /\ Names(ret, TYPE_FIELD))

\* C24: constructing a Record with an empty type string, from an ID and a
\* type or from a tree, produces no Record; every type string that is not
\* empty is accepted.
C24_TypeNotEmpty ==
    /\ op.name = "Record_new" => (ret.ok <=> op.type # "")
    /\ (/\ op.name = "Record_fromNode"
        /\ has_child(op.node, GLOBAL_ID_FIELD)
        /\ has_child(op.node, TYPE_FIELD)
        /\ ~has_child(op.node, DATA_FIELD)
        /\ ~has_child(op.node, USER_DEFINED_FIELD))
       => (ret.ok <=> op.node.fields[TYPE_FIELD].str # "")

\* C25: a document tree with an invalid element under `records` or
\* `relationships` (a record with no identifier or with a Datum with no
\* value, a relationship with no predicate) yields no Document, whatever valid
\* elements come before it; a record tree with a Datum with no value or with
\* a `user_defined` that is no object yields no Record.
C25_NoPartialConstruction ==
    LET BadRecord(t) ==
            \/ ~has_child(t, GLOBAL_ID_FIELD) /\ ~has_child(t, LOCAL_ID_FIELD)
            \/ /\ has_child(t, DATA_FIELD)
               /\ \E name \in DOMAIN FieldsOf(t.fields[DATA_FIELD]) :
                     ~has_child(t.fields[DATA_FIELD].fields[name], VALUE_FIELD)
            \/ /\ has_child(t, USER_DEFINED_FIELD)
               /\ ~is_object(t.fields[USER_DEFINED_FIELD])
               /\ ~is_empty(t.fields[USER_DEFINED_FIELD])
        BadRelationship(t) == ~has_child(t, PREDICATE_KEY)
    IN  /\ op.name = "Document_fromNode" =>
              LET records == ChildSeq(Fetch(op.node, RECORDS_KEY))
                  relationships == ChildSeq(Fetch(op.node, RELATIONSHIPS_KEY))
              IN  (\/ \E i \in DOMAIN records : BadRecord(records[i])
                   \/ \E i \in DOMAIN relationships : BadRelationship(relationships[i]))
                  => ~ret.ok
        /\ (op.name \in {"Record_fromNode", "load"} /\ BadRecord(op.node)) => ~ret.ok

C25_Witness ==
    /\ op.name = "Document_fromNode"
    /\ has_child(op.node, RECORDS_KEY)
    /\ Len(op.node.fields[RECORDS_KEY].items) = 2
    /\ has_child(op.node.fields[RECORDS_KEY].items[1], GLOBAL_ID_FIELD)
    /\ ~has_child(op.node.fields[RECORDS_KEY].items[2], GLOBAL_ID_FIELD)
    /\ ~has_child(op.node.fields[RECORDS_KEY].items[2], LOCAL_ID_FIELD)
    /\ ~ret.ok

\* C27: every Run has type `run`: a Run built from (id, application,
\* version, user) and a Run built from any tree the constructor accepts has
\* getType() = "run", and its toNode() has `type` = "run", whatever the
\* `type` of the tree was.
C27_RunType ==
    (op.name \in {"Run", "Run_fromNode"} /\ ret.ok)
    => /\ ret.val.type = RUN_TYPE
       /\ Fetch(ToNode(ret.val), TYPE_FIELD) = StringNode(RUN_TYPE)

\* --------------------------------------------------------------- SpecSave

\* std::ofstream fout{fileName}; fout << "Initial contents", as the test does
\* before the call
WriteInitialContents ==
    /\ saving = NotSaving
    /\ fileSystem' = WriteText(fileSystem, FileName, "Initial contents", "all")
    /\ op' = [name |-> "write", fileName |-> FileName]
    /\ ret' = NoValue
    /\ UNCHANGED <<idField, typeLoaders, registered, lastLoader, holders, rec, doc, saving>>

\* document.add(record) between two saves
SaveAddRecord(record) ==
    /\ saving = NotSaving
    /\ DocAddRecord(record)

\* saveDocument(doc, fileName), Document.cpp:89-92: the text is made, the
\* temporary file is opened and the stream is told to throw. A stream that
\* failed to open throws at exceptions(); nothing was created then.
SaveOpen(fileName, opened) ==
    /\ saving = NotSaving
    /\ op' = [name |-> "saveDocument", fileName |-> fileName]
    /\ IF opened
       THEN /\ fileSystem' = OpenForWriting(fileSystem, TmpFileName(fileName),
                                            to_json(DocumentToNode(doc)))
            /\ saving' = [pc |-> "opened", fileName |-> fileName,
                          tmpFileName |-> TmpFileName(fileName),
                          asJson |-> to_json(DocumentToNode(doc)),
                          previous |-> fileSystem[fileName]]
            /\ ret' = NoValue
       ELSE /\ ret' = IosFailure(<<"basic_ios::clear">>)
            /\ UNCHANGED <<fileSystem, saving>>
    /\ UNCHANGED <<idField, typeLoaders, registered, lastLoader, holders, rec, doc>>

\* Document.cpp:93-94: fout << asJson; fout.close(). Either all of the text
\* reaches the temporary file, or the stream fails, having written a part of
\* it or none, and throws.
SaveWrite(written) ==
    /\ saving.pc = "opened"
    /\ fileSystem' = WriteText(fileSystem, saving.tmpFileName, saving.asJson, written)
    /\ IF written = "all"
       THEN /\ saving' = [saving EXCEPT !.pc = "closed"]
            /\ UNCHANGED ret
       ELSE /\ saving' = NotSaving
            /\ ret' = IosFailure(<<"basic_ios::clear">>)
    /\ UNCHANGED <<idField, typeLoaders, registered, lastLoader, holders, rec, doc, op>>

\* Document.cpp:96-101: rename, and the failure thrown when it fails
SaveRename(renamed) ==
    /\ saving.pc = "closed"
    /\ saving' = NotSaving
    /\ IF renamed
       THEN /\ fileSystem' = Rename(fileSystem, saving.tmpFileName, saving.fileName)
            /\ ret' = NoValue
       ELSE /\ ret' = IosFailure(<<"Could not save to '", saving.fileName, "'">>)
            /\ UNCHANGED fileSystem
    /\ UNCHANGED <<idField, typeLoaders, registered, lastLoader, holders, rec, doc, op>>

NextSave ==
    \/ WriteInitialContents
    \/ \E record \in RecordChoices : SaveAddRecord(record)
    \/ \E opened \in BOOLEAN : SaveOpen(FileName, opened)
    \/ \E written \in {"all", "part", "none"} : SaveWrite(written)
    \/ \E renamed \in BOOLEAN : SaveRename(renamed)

SpecSave == Init /\ [][NextSave]_vars

\* C26: while saveDocument(doc, fileName) runs, the file at fileName holds
\* what it held before the call, whole; a file at fileName never holds a part
\* of a text; a call that fails to open or write the temporary file
\* fileName + ".sina.tmp", or to rename it, throws and leaves the file at
\* fileName as it was; a call that returns leaves in it the whole text of the
\* document.
C26_AtomicSave ==
    /\ [](saving # NotSaving => fileSystem[saving.fileName] = saving.previous)
    /\ [](fileSystem[FileName].kind = "file" => fileSystem[FileName].written = "all")
    /\ [][
          /\ (saving # NotSaving /\ saving' = NotSaving /\ ret' = NoValue)
             => fileSystem'[saving.fileName] =
                   FileHolding(to_json(DocumentToNode(doc)), "all")
          /\ (saving # NotSaving /\ saving' = NotSaving /\ ret' # NoValue)
             => /\ ret'.err = "ios_failure"
                /\ fileSystem'[saving.fileName] = saving.previous
          /\ (saving = NotSaving /\ saving' = NotSaving /\ op'.name = "saveDocument")
             => /\ ret'.err = "ios_failure"
                /\ fileSystem' = fileSystem
       ]_vars

C26_Witness ==
    /\ op.name = "saveDocument"
    /\ saving = NotSaving
    /\ ret = NoValue
    /\ doc.records # <<>>
    /\ fileSystem[FileName] = FileHolding(to_json(DocumentToNode(doc)), "all")
    /\ fileSystem[TmpFileName(FileName)] = NoFile

\* -------------------------------------------------------------- SpecWrite

\* file.toNode()
FileWrite(file) ==
    /\ ret' = FileToNode(file)
    /\ op' = [name |-> "File_toNode", file |-> file]
    /\ UNCHANGED <<idField, typeLoaders, registered, lastLoader, holders, rec, doc, fileSystem, saving>>

\* run.toNode()
RunWrite(run) ==
    /\ ret' = ToNode(run)
    /\ op' = [name |-> "Run_toNode", run |-> run]
    /\ UNCHANGED <<idField, typeLoaders, registered, lastLoader, holders, rec, doc, fileSystem, saving>>

NextWrite ==
    \/ \E datum \in Datums : DatumWrite(datum)
    \/ \E file \in WrittenFiles : FileWrite(file)
    \/ \E run \in WrittenRuns : RunWrite(run)

SpecWrite == Init /\ [][NextWrite]_vars

\* C28: an optional field is written exactly when it is not empty: the tree of
\* Datum::toNode has `tags` exactly when the Datum has tags, and then they are
\* those tags in order, and `units` exactly when the units are not empty; the
\* tree of File::toNode has `mimetype` and `tags` exactly when they are not
\* empty; the tree of a Run has `version` and `user` exactly when they are not
\* empty.
C28_OptionalFields ==
    /\ op.name = "Datum_toNode" =>
          /\ has_child(ret, TAGS_FIELD) <=> op.datum.tags # <<>>
          /\ op.datum.tags # <<>> =>
                Fetch(ret, TAGS_FIELD) = ListNode(StringNodes(op.datum.tags))
          /\ has_child(ret, UNITS_FIELD) <=> op.datum.units # ""
    /\ op.name = "File_toNode" =>
          /\ has_child(ret, MIMETYPE_KEY) <=> op.file.mimeType # ""
          /\ has_child(ret, TAGS_KEY) <=> op.file.tags # <<>>
    /\ op.name = "Run_toNode" =>
          /\ has_child(ret, VERSION_FIELD) <=> op.run.version # ""
          /\ has_child(ret, USER_FIELD) <=> op.run.user # ""

\* ------------------------------------------ Record claims, frame (SpecRecord)

\* C29: over any sequence of add(name, Datum), add(File), add(CurveSet) and
\* setUserDefinedContent calls the record keeps the id and the type it was
\* constructed with; add(name, Datum) leaves files, curve sets and
\* user-defined content as they were, add(File) leaves data, curve sets and
\* user-defined content as they were, add(CurveSet) leaves data, files and
\* user-defined content as they were; toNode changes nothing.
C29_Frame ==
    [][
       /\ (rec # NoValue /\ op'.name # "Record") =>
             (rec'.id = rec.id /\ rec'.type = rec.type)
       /\ op'.name = "Record_add_Datum" =>
             /\ rec'.files = rec.files
             /\ rec'.curveSets = rec.curveSets
             /\ rec'.userDefined = rec.userDefined
       /\ op'.name = "Record_add_File" =>
             /\ rec'.data = rec.data
             /\ rec'.curveSets = rec.curveSets
             /\ rec'.userDefined = rec.userDefined
       /\ op'.name = "Record_add_CurveSet" =>
             /\ rec'.data = rec.data
             /\ rec'.files = rec.files
             /\ rec'.userDefined = rec.userDefined
       /\ op'.name \in {"Record_toNode", "Record_fromNode"} => rec' = rec
    ]_vars

C29_Witness ==
    /\ op.name = "Record_add_File"
    /\ DOMAIN rec.data # {}
    /\ DOMAIN rec.curveSets # {}
    /\ ~is_empty(rec.userDefined)
    /\ Cardinality(DOMAIN rec.files) = MaxFiles

\* ------------------------------------------- library data claims (SpecHolder)

====
